---------------------------- MODULE Spec2Model ----------------------------
(***************************************************************************)
(* Model of the RGB indicator led controller of mce-plugin-libhybris       *)
(* (hybris.c): request sanitation, ramp synthesis, the settle/step timer   *)
(* state machine and the sysfs backend frontend.                           *)
(***************************************************************************)
EXTENDS Integers, Sequences, FiniteSets, TLC

VARIABLES
  led_ctrl_curr,        \* led_request_t: currently active RGB led state
  led_ctrl_breathe,     \* intensity curve: step, steps, delay, value[]
  led_ctrl_stop_id,     \* timer id for stopping led (0 = none)
  led_ctrl_step_id,     \* timer id for breathing/setting led (0 = none)
  reset_blinking,       \* flag: settle callback must clear blinking
  led_ctrl_uses_sysfs,  \* flag: controls for RGB leds exist in sysfs
  init_done,            \* mce_hybris_indicator_init: static bool done
  init_ack,             \* mce_hybris_indicator_init: static bool ack
  led_control,          \* led_control_t: backend name and callbacks present
  sources,              \* glib main loop: pending timeout sources {[id, cb]}
  hw_log,               \* sysfs writes (and, for quit, the other steps)
                        \* of the latest operation, in program order
  ev,                   \* the latest operation and the path it took
  unit,                 \* argument/result cell for single-function runs
  script,               \* position of the caller in a scripted scenario
  hw                    \* the sysfs side: what it has been written so far

vars == <<led_ctrl_curr, led_ctrl_breathe, led_ctrl_stop_id, led_ctrl_step_id,
          reset_blinking, led_ctrl_uses_sysfs, init_done, init_ack,
          led_control, sources, hw_log, ev, unit, script, hw>>

(***************************************************************************)
(* Program constants                                                       *)
(***************************************************************************)
LED_CTRL_KERNEL_DELAY == 10

LED_CTRL_BREATHING_DELAY == 20

LED_CTRL_MAX_STEPS == 256

LED_CTRL_MIN_STEPS == 7

(***************************************************************************)
(* Fixed-point evaluation of (uint8_t)(sinf(a) * 255.0f) for the angles    *)
(* a = i*pi/2/n (rising) and a = pi/2 + i*pi/2/n (falling, = cos).         *)
(* Angles carry FIX units per radian; the series are evaluated in Horner   *)
(* form so that every product fits 32 bits.  The result agrees with the    *)
(* float expression except for rare off-by-one at truncation boundaries.   *)
(***************************************************************************)
FIX == 20000

FIX_PI_2 == 31416

Min(a, b) == IF a < b THEN a ELSE b

Max(a, b) == IF a < b THEN b ELSE a

RampRise(i, n) ==
  LET x  == (i * FIX_PI_2) \div n
      y  == (x * x) \div FIX
      t4 == FIX - y \div 72
      t3 == FIX - (y * t4) \div (42 * FIX)
      t2 == FIX - (y * t3) \div (20 * FIX)
      t1 == FIX - (y * t2) \div (6 * FIX)
      s  == (x * t1) \div FIX
  IN  Max(0, Min(255, (s * 255) \div FIX))

RampFall(i, n) ==
  LET x  == (i * FIX_PI_2) \div n
      y  == (x * x) \div FIX
      t5 == FIX - y \div 90
      t4 == FIX - (y * t5) \div (56 * FIX)
      t3 == FIX - (y * t4) \div (30 * FIX)
      t2 == FIX - (y * t3) \div (12 * FIX)
      t1 == FIX - (y * t2) \div (2 * FIX)
  IN  Max(0, Min(255, (t1 * 255) \div FIX))

(***************************************************************************)
(* generic led utils                                                       *)
(***************************************************************************)
\* C integer division truncates towards zero
CDiv(a, b) == IF a >= 0 THEN a \div b ELSE -((-a) \div b)

led_util_scale_value(in, max) ==
  LET out == CDiv(in * max + 128, 255)
  IN  IF out < 0 THEN 0 ELSE IF out < max THEN out ELSE max

\* variant: only the upper end is clamped
clamp_to_range_upper(lo, hi, val) == IF val <= hi THEN val ELSE hi

clamp_to_range(lo, hi, val) ==
  IF val <= lo THEN lo ELSE IF val <= hi THEN val ELSE hi

(***************************************************************************)
(* led_request_t and its predicates                                        *)
(***************************************************************************)
Request(r, g, b, on, off, level, breathe) ==
  [r |-> r, g |-> g, b |-> b, on |-> on, off |-> off,
   level |-> level, breathe |-> breathe]

\* variant: the full equality test used where the timing test belongs
led_request_has_equal_timing_full(self, that) ==
  self = that

led_request_has_equal_timing(self, that) ==
  self.on = that.on /\ self.off = that.off

\* variant: the on period compared with the other request's off period
led_request_is_equal_swapped(self, that) ==
  /\ self.r = that.r
  /\ self.g = that.g
  /\ self.b = that.b
  /\ self.on = that.off
  /\ self.off = that.off
  /\ self.level = that.level
  /\ self.breathe = that.breathe

\* variant: channels that are not lit compare equal
led_request_is_equal_unlit(self, that) ==
  /\ Max(self.r, 0) = Max(that.r, 0)
  /\ Max(self.g, 0) = Max(that.g, 0)
  /\ Max(self.b, 0) = Max(that.b, 0)
  /\ self.on = that.on
  /\ self.off = that.off
  /\ self.level = that.level
  /\ self.breathe = that.breathe

led_request_is_equal(self, that) ==
  /\ self.r = that.r
  /\ self.g = that.g
  /\ self.b = that.b
  /\ self.on = that.on
  /\ self.off = that.off
  /\ self.level = that.level
  /\ self.breathe = that.breathe

\* variant: zero counts as colour
led_request_has_color_ge(self) ==
  self.r >= 0 \/ self.g >= 0 \/ self.b >= 0

led_request_has_color(self) ==
  self.r > 0 \/ self.g > 0 \/ self.b > 0

\* variant: black keeps the breathe flag
led_request_sanitize_black(self) ==
  LET min_period == LED_CTRL_BREATHING_DELAY * LED_CTRL_MIN_STEPS
  IN  IF ~led_request_has_color(self)
        THEN [self EXCEPT !.on = 0, !.off = 0]
      ELSE IF self.on <= 0 \/ self.off <= 0
        THEN [self EXCEPT !.on = 0, !.off = 0, !.breathe = FALSE]
      ELSE IF self.on < min_period \/ self.off < min_period
        THEN [self EXCEPT !.breathe = FALSE]
      ELSE self

\* variant: timing is dropped only when both periods are missing
led_request_sanitize_both(self) ==
  LET min_period == LED_CTRL_BREATHING_DELAY * LED_CTRL_MIN_STEPS
  IN  IF ~led_request_has_color(self)
        THEN [self EXCEPT !.on = 0, !.off = 0, !.breathe = FALSE]
      ELSE IF self.on <= 0 /\ self.off <= 0
        THEN [self EXCEPT !.on = 0, !.off = 0, !.breathe = FALSE]
      ELSE IF self.on < min_period \/ self.off < min_period
        THEN [self EXCEPT !.breathe = FALSE]
      ELSE self

\* variant: only the on period is tested against the minimum period
led_request_sanitize_on(self) ==
  LET min_period == LED_CTRL_BREATHING_DELAY * LED_CTRL_MIN_STEPS
  IN  IF ~led_request_has_color(self)
        THEN [self EXCEPT !.on = 0, !.off = 0, !.breathe = FALSE]
      ELSE IF self.on <= 0 \/ self.off <= 0
        THEN [self EXCEPT !.on = 0, !.off = 0, !.breathe = FALSE]
      ELSE IF self.on < min_period
        THEN [self EXCEPT !.breathe = FALSE]
      ELSE self

led_request_sanitize(self) ==
  LET min_period == LED_CTRL_BREATHING_DELAY * LED_CTRL_MIN_STEPS
  IN  IF ~led_request_has_color(self)
        THEN [self EXCEPT !.on = 0, !.off = 0, !.breathe = FALSE]
      ELSE IF self.on <= 0 \/ self.off <= 0
        THEN [self EXCEPT !.on = 0, !.off = 0, !.breathe = FALSE]
      ELSE IF self.on < min_period \/ self.off < min_period
        THEN [self EXCEPT !.breathe = FALSE]
      ELSE self

led_request_get_style(self) ==
  IF ~led_request_has_color(self) THEN "STYLE_OFF"
  ELSE IF self.on <= 0 \/ self.off <= 0 THEN "STYLE_STATIC"
  ELSE IF self.breathe THEN "STYLE_BREATH"
  ELSE "STYLE_BLINK"

(***************************************************************************)
(* led_ctrl_breathe.value is a zero-initialised array of                   *)
(* LED_CTRL_MAX_STEPS bytes.  It is held as the sequence of its entries up *)
(* to the highest index ever written; the entries above are still zero.    *)
(***************************************************************************)
RampValue(value, i) == IF i < Len(value) THEN value[i + 1] ELSE 0

(***************************************************************************)
(* led_ctrl_generate_ramp: the new contents of led_ctrl_breathe            *)
(***************************************************************************)
\* variant: the step delay is rounded down
RampDelay_floor(ms_on, ms_off) ==
  LET t == ms_on + ms_off
      s == CDiv(t, LED_CTRL_MAX_STEPS)
  IN  IF s < LED_CTRL_BREATHING_DELAY THEN LED_CTRL_BREATHING_DELAY ELSE s

RampDelay(ms_on, ms_off) ==
  LET t == ms_on + ms_off
      s == CDiv(t + LED_CTRL_MAX_STEPS - 1, LED_CTRL_MAX_STEPS)
  IN  IF s < LED_CTRL_BREATHING_DELAY THEN LED_CTRL_BREATHING_DELAY ELSE s

RampStepsTotal(ms_on, ms_off) ==
  LET t == ms_on + ms_off
      s == RampDelay(ms_on, ms_off)
  IN  CDiv(t + s - 1, s)

\* variant: the share of the rising part is rounded down
RampStepsOn_floor(ms_on, ms_off) ==
  LET t == ms_on + ms_off
      n == RampStepsTotal(ms_on, ms_off)
  IN  CDiv(n * ms_on, t)

RampStepsOn(ms_on, ms_off) ==
  LET t == ms_on + ms_off
      n == RampStepsTotal(ms_on, ms_off)
  IN  CDiv(n * ms_on + CDiv(t, 2), t)

RampStepsOff(ms_on, ms_off) ==
  RampStepsTotal(ms_on, ms_off) - RampStepsOn(ms_on, ms_off)

\* k after both loops: each loop runs max(0, steps) times
RampWritten(ms_on, ms_off) ==
  Max(0, RampStepsOn(ms_on, ms_off)) + Max(0, RampStepsOff(ms_on, ms_off))

\* variant: generating a ramp rewinds the step index
led_ctrl_generate_ramp_rewind(breathe, ms_on, ms_off) ==
  LET steps_on  == Max(0, RampStepsOn(ms_on, ms_off))
      steps_off == Max(0, RampStepsOff(ms_on, ms_off))
      k         == steps_on + steps_off
  IN  [step  |-> 0,
       steps |-> k,
       delay |-> RampDelay(ms_on, ms_off),
       value |-> [j \in 1 .. Min(LED_CTRL_MAX_STEPS, Max(k, Len(breathe.value))) |->
                    LET i == j - 1
                    IN  IF i < steps_on THEN RampRise(i, steps_on)
                        ELSE IF i < k THEN RampFall(i - steps_on, steps_off)
                        ELSE breathe.value[j]]]

\* variant: the ramp is generated without a step delay
led_ctrl_generate_ramp_idle(breathe, ms_on, ms_off) ==
  [breathe EXCEPT !.delay = 0]

led_ctrl_generate_ramp(breathe, ms_on, ms_off) ==
  LET steps_on  == Max(0, RampStepsOn(ms_on, ms_off))
      steps_off == Max(0, RampStepsOff(ms_on, ms_off))
      k         == steps_on + steps_off
  IN  [step  |-> breathe.step,
       steps |-> k,
       delay |-> RampDelay(ms_on, ms_off),
       value |-> [j \in 1 .. Min(LED_CTRL_MAX_STEPS, Max(k, Len(breathe.value))) |->
                    LET i == j - 1
                    IN  IF i < steps_on THEN RampRise(i, steps_on)
                        ELSE IF i < k THEN RampFall(i - steps_on, steps_off)
                        ELSE breathe.value[j]]]


(***************************************************************************)
(* RGB led control: generic frontend.  A write is logged as                *)
(* <<kind, x, y, z>>: <<"enable", 0|1, 0, 0>>, <<"blink", on, off, 0>>,    *)
(* <<"value", r, g, b>>.                                                   *)
(***************************************************************************)
ControlClosed ==
  [name |-> "none", enable |-> FALSE, blink |-> FALSE,
   value |-> FALSE, close |-> FALSE]

led_control_init == ControlClosed

ControlVanilla ==
  [name |-> "vanilla", enable |-> FALSE, blink |-> TRUE,
   value |-> TRUE, close |-> TRUE]

ControlHammerhead ==
  [name |-> "hammerhead", enable |-> TRUE, blink |-> TRUE,
   value |-> TRUE, close |-> TRUE]

led_control_enable(self, enable) ==
  IF self.enable THEN << <<"enable", IF enable THEN 1 ELSE 0, 0, 0>> >>
  ELSE << >>

led_control_blink(self, on_ms, off_ms) ==
  IF self.blink
    THEN led_control_enable(self, FALSE) \o << <<"blink", on_ms, off_ms, 0>> >>
    ELSE << >>

\* variant: the led is left disabled after the value write
led_control_value_disabled(self, r, g, b) ==
  IF self.value
    THEN led_control_enable(self, FALSE) \o << <<"value", r, g, b>> >>
    ELSE << >>

led_control_value(self, r, g, b) ==
  IF self.value
    THEN led_control_enable(self, FALSE) \o << <<"value", r, g, b>> >>
           \o led_control_enable(self, TRUE)
    ELSE << >>

\* variant: the close callback is run, the object is not reset
led_control_close_kept(self) == self

\* led_control_close: run the close callback, then reset the object
led_control_close(self) == led_control_init

\* A family probes successfully when all three channels (R, G, B) probe
\* successfully; fs gives the outcome of each channel probe per family.
led_control_vanilla_probe(fs) ==
  fs.vanilla[1] /\ fs.vanilla[2] /\ fs.vanilla[3]

led_control_hammerhead_probe(fs) ==
  fs.hammerhead[1] /\ fs.hammerhead[2] /\ fs.hammerhead[3]

\* variant: the hammerhead family is tried first
led_control_probe_hammerhead_first(fs) ==
  IF led_control_hammerhead_probe(fs) THEN ControlHammerhead
  ELSE IF led_control_vanilla_probe(fs) THEN ControlVanilla
  ELSE ControlClosed

led_control_probe(fs) ==
  IF led_control_vanilla_probe(fs) THEN ControlVanilla
  ELSE IF led_control_hammerhead_probe(fs) THEN ControlHammerhead
  ELSE ControlClosed

led_ctrl_set_rgb_blink(on, off) == led_control_blink(led_control, on, off)

\* variant: the colour is not written
led_ctrl_set_rgb_value_dropped(r, g, b) == << >>

led_ctrl_set_rgb_value(r, g, b) == led_control_value(led_control, r, g, b)

\* effect of issuing the writes in log
Issue(log) == hw_log' = log

(***************************************************************************)
(* glib timeout sources                                                    *)
(***************************************************************************)
SourceIds == {s.id : s \in sources}

\* source ids the model draws from
MaxSourceId == 8

\* g_timeout_add returns an id that no live source and no id variable holds
NewSourceId ==
  CHOOSE n \in 1 .. MaxSourceId :
    /\ n \notin SourceIds \cup {led_ctrl_stop_id, led_ctrl_step_id}
    /\ \A m \in 1 .. (n - 1) :
         m \in SourceIds \cup {led_ctrl_stop_id, led_ctrl_step_id}

g_timeout_add(srcs, id, cb) == srcs \cup {[id |-> id, cb |-> cb]}

\* variant: the source is left in the main loop
g_source_remove_kept(srcs, id) == srcs

g_source_remove(srcs, id) == {s \in srcs : s.id # id}

(***************************************************************************)
(* led_ctrl_start                                                          *)
(***************************************************************************)
\* variant: the request is taken as given
StartWork_raw(next) == next

StartWork(next) == led_request_sanitize(next)

StartAccepted(next) == ~led_request_is_equal(led_ctrl_curr, StartWork(next))

StartRestart(next) ==
  ~(/\ led_request_get_style(led_ctrl_curr) = "STYLE_BREATH"
    /\ led_request_get_style(StartWork(next)) = "STYLE_BREATH"
    /\ led_request_has_equal_timing(led_ctrl_curr, StartWork(next)))

\* variant: a settle timer is armed by every restart
StartArmsSettle_always == TRUE

\* a settle timer is armed only when none is pending
StartArmsSettle == led_ctrl_stop_id = 0

led_ctrl_start(next) ==
  LET work      == StartWork(next)
      old_style == led_request_get_style(led_ctrl_curr)
      new_style == led_request_get_style(work)
      removed   == IF led_ctrl_step_id # 0
                     THEN g_source_remove(sources, led_ctrl_step_id)
                     ELSE sources
      arm       == StartArmsSettle
      id        == NewSourceId
  IN  IF ~StartAccepted(next)
        THEN UNCHANGED <<led_ctrl_curr, led_ctrl_breathe, led_ctrl_stop_id,
                         led_ctrl_step_id, reset_blinking, sources>>
      ELSE IF ~StartRestart(next)
        THEN /\ led_ctrl_curr' = work
             /\ UNCHANGED <<led_ctrl_breathe, led_ctrl_stop_id,
                            led_ctrl_step_id, reset_blinking, sources>>
      ELSE /\ led_ctrl_curr' = work
           /\ led_ctrl_step_id' = 0
           /\ led_ctrl_breathe' =
                IF new_style = "STYLE_BREATH"
                  THEN led_ctrl_generate_ramp(led_ctrl_breathe, work.on, work.off)
                  ELSE [led_ctrl_breathe EXCEPT !.delay = 0]
           /\ reset_blinking' =
                IF arm THEN (old_style = "STYLE_BLINK" \/ new_style = "STYLE_BLINK")
                ELSE reset_blinking
           /\ led_ctrl_stop_id' = IF arm THEN id ELSE led_ctrl_stop_id
           /\ sources' = IF arm THEN g_timeout_add(removed, id, "led_ctrl_stop_cb")
                         ELSE removed

NoReq == Request(-1, -1, -1, -1, -1, -1, FALSE)

\* op: the operation; req: the request it handed to led_ctrl_start (when
\* started); accepted/restart: the path led_ctrl_start took; ret: the value
\* returned (for a timer callback: whether its body ran)
Event(op, req, started, ret) ==
  [op |-> op, req |-> req, started |-> started,
   accepted |-> started /\ StartAccepted(req),
   restart |-> started /\ StartAccepted(req) /\ StartRestart(req),
   ret |-> ret]

(***************************************************************************)
(* timer callbacks                                                         *)
(***************************************************************************)
\* variant: the callback stays scheduled when its writes fail
led_ctrl_static_cb_retry(src) ==
  /\ src.cb = "led_ctrl_static_cb"
  /\ ev' = Event("led_ctrl_static_cb", NoReq, FALSE, led_ctrl_step_id # 0)
  /\ UNCHANGED <<led_ctrl_curr, led_ctrl_breathe, led_ctrl_stop_id,
                 reset_blinking, led_ctrl_uses_sysfs, init_done, init_ack,
                 led_control>>
  /\ IF led_ctrl_step_id = 0
       THEN /\ sources' = sources \ {src}
            /\ Issue(<< >>)
            /\ UNCHANGED led_ctrl_step_id
       ELSE LET l == led_ctrl_curr.level
                r == led_util_scale_value(led_ctrl_curr.r, l)
                g == led_util_scale_value(led_ctrl_curr.g, l)
                b == led_util_scale_value(led_ctrl_curr.b, l)
            IN  /\ sources' = IF hw.failing THEN sources ELSE sources \ {src}
                /\ led_ctrl_step_id' = IF hw.failing THEN led_ctrl_step_id ELSE 0
                /\ Issue(led_ctrl_set_rgb_blink(led_ctrl_curr.on, led_ctrl_curr.off)
                           \o led_ctrl_set_rgb_value(r, g, b))

\* variant: the static fire writes the colour only
led_ctrl_static_cb_value(src) ==
  /\ src.cb = "led_ctrl_static_cb"
  /\ sources' = sources \ {src}
  /\ ev' = Event("led_ctrl_static_cb", NoReq, FALSE, led_ctrl_step_id # 0)
  /\ UNCHANGED <<led_ctrl_curr, led_ctrl_breathe, led_ctrl_stop_id,
                 reset_blinking, led_ctrl_uses_sysfs, init_done, init_ack,
                 led_control>>
  /\ IF led_ctrl_step_id = 0
       THEN /\ Issue(<< >>)
            /\ UNCHANGED led_ctrl_step_id
       ELSE LET l == led_ctrl_curr.level
                r == led_util_scale_value(led_ctrl_curr.r, l)
                g == led_util_scale_value(led_ctrl_curr.g, l)
                b == led_util_scale_value(led_ctrl_curr.b, l)
            IN  /\ led_ctrl_step_id' = 0
                /\ Issue(led_ctrl_set_rgb_value(r, g, b))

led_ctrl_static_cb(src) ==
  /\ src.cb = "led_ctrl_static_cb"
  /\ sources' = sources \ {src}
  /\ ev' = Event("led_ctrl_static_cb", NoReq, FALSE, led_ctrl_step_id # 0)
  /\ UNCHANGED <<led_ctrl_curr, led_ctrl_breathe, led_ctrl_stop_id,
                 reset_blinking, led_ctrl_uses_sysfs, init_done, init_ack,
                 led_control>>
  /\ IF led_ctrl_step_id = 0
       THEN /\ Issue(<< >>)
            /\ UNCHANGED led_ctrl_step_id
       ELSE LET l == led_ctrl_curr.level
                r == led_util_scale_value(led_ctrl_curr.r, l)
                g == led_util_scale_value(led_ctrl_curr.g, l)
                b == led_util_scale_value(led_ctrl_curr.b, l)
            IN  /\ led_ctrl_step_id' = 0
                /\ Issue(led_ctrl_set_rgb_blink(led_ctrl_curr.on, led_ctrl_curr.off)
                           \o led_ctrl_set_rgb_value(r, g, b))

\* step index the wrap test leaves
StepIndex_late(breathe) ==
  IF breathe.step > breathe.steps THEN 0 ELSE breathe.step

\* variant: the index is never wrapped
StepIndex_never(breathe) == breathe.step

StepIndex(breathe) ==
  IF breathe.step >= breathe.steps THEN 0 ELSE breathe.step

\* variant: the step timer is one-shot
led_ctrl_step_cb_once(src) ==
  /\ src.cb = "led_ctrl_step_cb"
  /\ ev' = Event("led_ctrl_step_cb", NoReq, FALSE, led_ctrl_step_id # 0)
  /\ UNCHANGED <<led_ctrl_curr, led_ctrl_stop_id,
                 reset_blinking, led_ctrl_uses_sysfs, init_done, init_ack,
                 led_control>>
  /\ led_ctrl_step_id' = 0
  /\ IF led_ctrl_step_id = 0
       THEN /\ sources' = sources \ {src}
            /\ Issue(<< >>)
            /\ UNCHANGED led_ctrl_breathe
       ELSE LET i == StepIndex(led_ctrl_breathe)
                l == led_ctrl_curr.level
                v == RampValue(led_ctrl_breathe.value, i)
                r == led_util_scale_value(led_util_scale_value(led_ctrl_curr.r, l), v)
                g == led_util_scale_value(led_util_scale_value(led_ctrl_curr.g, l), v)
                b == led_util_scale_value(led_util_scale_value(led_ctrl_curr.b, l), v)
            IN  /\ led_ctrl_breathe' = [led_ctrl_breathe EXCEPT !.step = i + 1]
                /\ Issue(led_ctrl_set_rgb_value(r, g, b))
                /\ sources' = sources \ {src}

led_ctrl_step_cb(src) ==
  /\ src.cb = "led_ctrl_step_cb"
  /\ ev' = Event("led_ctrl_step_cb", NoReq, FALSE, led_ctrl_step_id # 0)
  /\ UNCHANGED <<led_ctrl_curr, led_ctrl_stop_id, led_ctrl_step_id,
                 reset_blinking, led_ctrl_uses_sysfs, init_done, init_ack,
                 led_control>>
  /\ IF led_ctrl_step_id = 0
       THEN /\ sources' = sources \ {src}
            /\ Issue(<< >>)
            /\ UNCHANGED led_ctrl_breathe
       ELSE LET i == StepIndex(led_ctrl_breathe)
                l == led_ctrl_curr.level
                v == RampValue(led_ctrl_breathe.value, i)
                r == led_util_scale_value(led_util_scale_value(led_ctrl_curr.r, l), v)
                g == led_util_scale_value(led_util_scale_value(led_ctrl_curr.g, l), v)
                b == led_util_scale_value(led_util_scale_value(led_ctrl_curr.b, l), v)
            IN  /\ led_ctrl_breathe' = [led_ctrl_breathe EXCEPT !.step = i + 1]
                /\ Issue(led_ctrl_set_rgb_value(r, g, b))
                /\ UNCHANGED sources

\* variant: blinking is cleared on every fire
led_ctrl_stop_cb_always(src) ==
  /\ src.cb = "led_ctrl_stop_cb"
  /\ ev' = Event("led_ctrl_stop_cb", NoReq, FALSE, led_ctrl_stop_id # 0)
  /\ UNCHANGED <<led_ctrl_curr, led_ctrl_breathe, led_ctrl_uses_sysfs,
                 init_done, init_ack, led_control>>
  /\ IF led_ctrl_stop_id = 0
       THEN /\ sources' = sources \ {src}
            /\ Issue(<< >>)
            /\ UNCHANGED <<led_ctrl_stop_id, led_ctrl_step_id, reset_blinking>>
       ELSE LET colored == led_request_has_color(led_ctrl_curr)
                clear   == led_ctrl_set_rgb_blink(0, 0)
                black   == IF ~colored \/ reset_blinking
                             THEN led_ctrl_set_rgb_value(0, 0, 0) ELSE << >>
                id      == NewSourceId
                cb      == IF led_ctrl_breathe.delay > 0 THEN "led_ctrl_step_cb"
                           ELSE "led_ctrl_static_cb"
            IN  /\ led_ctrl_stop_id' = 0
                /\ led_ctrl_step_id' = IF colored THEN id ELSE led_ctrl_step_id
                /\ sources' = IF colored
                                THEN g_timeout_add(sources \ {src}, id, cb)
                                ELSE sources \ {src}
                /\ reset_blinking' = FALSE
                /\ Issue(clear \o black)

\* variant: blinking is never cleared
led_ctrl_stop_cb_keep(src) ==
  /\ src.cb = "led_ctrl_stop_cb"
  /\ ev' = Event("led_ctrl_stop_cb", NoReq, FALSE, led_ctrl_stop_id # 0)
  /\ UNCHANGED <<led_ctrl_curr, led_ctrl_breathe, led_ctrl_uses_sysfs,
                 init_done, init_ack, led_control>>
  /\ IF led_ctrl_stop_id = 0
       THEN /\ sources' = sources \ {src}
            /\ Issue(<< >>)
            /\ UNCHANGED <<led_ctrl_stop_id, led_ctrl_step_id, reset_blinking>>
       ELSE LET colored == led_request_has_color(led_ctrl_curr)
                clear   == << >>
                black   == IF ~colored \/ reset_blinking
                             THEN led_ctrl_set_rgb_value(0, 0, 0) ELSE << >>
                id      == NewSourceId
                cb      == IF led_ctrl_breathe.delay > 0 THEN "led_ctrl_step_cb"
                           ELSE "led_ctrl_static_cb"
            IN  /\ led_ctrl_stop_id' = 0
                /\ led_ctrl_step_id' = IF colored THEN id ELSE led_ctrl_step_id
                /\ sources' = IF colored
                                THEN g_timeout_add(sources \ {src}, id, cb)
                                ELSE sources \ {src}
                /\ reset_blinking' = FALSE
                /\ Issue(clear \o black)

led_ctrl_stop_cb(src) ==
  /\ src.cb = "led_ctrl_stop_cb"
  /\ ev' = Event("led_ctrl_stop_cb", NoReq, FALSE, led_ctrl_stop_id # 0)
  /\ UNCHANGED <<led_ctrl_curr, led_ctrl_breathe, led_ctrl_uses_sysfs,
                 init_done, init_ack, led_control>>
  /\ IF led_ctrl_stop_id = 0
       THEN /\ sources' = sources \ {src}
            /\ Issue(<< >>)
            /\ UNCHANGED <<led_ctrl_stop_id, led_ctrl_step_id, reset_blinking>>
       ELSE LET colored == led_request_has_color(led_ctrl_curr)
                clear   == IF reset_blinking THEN led_ctrl_set_rgb_blink(0, 0)
                           ELSE << >>
                black   == IF ~colored \/ reset_blinking
                             THEN led_ctrl_set_rgb_value(0, 0, 0) ELSE << >>
                id      == NewSourceId
                cb      == IF led_ctrl_breathe.delay > 0 THEN "led_ctrl_step_cb"
                           ELSE "led_ctrl_static_cb"
            IN  /\ led_ctrl_stop_id' = 0
                /\ led_ctrl_step_id' = IF colored THEN id ELSE led_ctrl_step_id
                /\ sources' = IF colored
                                THEN g_timeout_add(sources \ {src}, id, cb)
                                ELSE sources \ {src}
                /\ reset_blinking' = FALSE
                /\ Issue(clear \o black)

TimerFire ==
  \E src \in sources :
    \/ led_ctrl_stop_cb(src)
    \/ led_ctrl_static_cb(src)
    \/ led_ctrl_step_cb(src)

(***************************************************************************)
(* Inputs of the public operations                                         *)
(***************************************************************************)
\* set_pattern arguments <<r, g, b, ms_on, ms_off>>
Patterns ==
  {<<0, 0, 0, 0, 0>>, <<255, 0, 0, 0, 0>>, <<255, 0, 0, 100, 500>>,
   <<255, 0, 0, 140, 140>>, <<255, 0, 0, 140, 200>>, <<0, 128, 255, 140, 140>>}

Levels == {255, 100}

\* outcome of probing each channel (R, G, B) of each backend family
FsConfigs ==
  {[vanilla |-> <<TRUE, TRUE, TRUE>>, hammerhead |-> <<FALSE, FALSE, FALSE>>],
   [vanilla |-> <<TRUE, TRUE, FALSE>>, hammerhead |-> <<TRUE, TRUE, TRUE>>],
   [vanilla |-> <<FALSE, FALSE, FALSE>>, hammerhead |-> <<TRUE, FALSE, TRUE>>]}

(***************************************************************************)
(* hybris led API                                                          *)
(***************************************************************************)
mce_hybris_indicator_init(fs, fallback_ok) ==
  /\ IF init_done
       THEN /\ ev' = Event("init", NoReq, FALSE, init_ack)
            /\ Issue(<< >>)
            /\ UNCHANGED <<led_ctrl_curr, led_ctrl_breathe, led_ctrl_stop_id,
                           led_ctrl_step_id, reset_blinking, led_ctrl_uses_sysfs,
                           init_done, init_ack, led_control, sources>>
       ELSE LET ctl    == led_control_probe(fs)
                probed == ctl.name # "none"
                req    == [led_ctrl_curr EXCEPT !.r = 0, !.g = 0, !.b = 0]
            IN  /\ init_done' = TRUE
                /\ led_control' = ctl
                /\ led_ctrl_uses_sysfs' = probed
                /\ Issue(<< >>)
                /\ IF probed
                     THEN /\ led_ctrl_start(req)
                          /\ init_ack' = TRUE
                          /\ ev' = Event("init", req, TRUE, TRUE)
                     ELSE /\ init_ack' = fallback_ok
                          /\ ev' = Event("init", NoReq, FALSE, fallback_ok)
                          /\ UNCHANGED <<led_ctrl_curr, led_ctrl_breathe,
                                         led_ctrl_stop_id, led_ctrl_step_id,
                                         reset_blinking, sources>>

\* the steps of quit other than sysfs writes, as log entries
QuitCancel(id) == IF id # 0 THEN << <<"cancel", id, 0, 0>> >> ELSE << >>

\* variant: quit does not wait
led_ctrl_wait_kernel_none == << >>

led_ctrl_wait_kernel == << <<"wait", LED_CTRL_KERNEL_DELAY, 0, 0>> >>

led_ctrl_close_sysfs_files ==
  IF led_control.close THEN << <<"close", 0, 0, 0>> >> ELSE << >>

mce_hybris_indicator_quit ==
  /\ UNCHANGED <<led_ctrl_curr, led_ctrl_breathe, reset_blinking,
                 led_ctrl_uses_sysfs, init_done, init_ack>>
  /\ ev' = Event("quit", NoReq, FALSE, TRUE)
  /\ IF led_ctrl_uses_sysfs
       THEN /\ sources' =
                 g_source_remove(
                   IF led_ctrl_step_id # 0
                     THEN g_source_remove(sources, led_ctrl_step_id)
                     ELSE sources,
                   led_ctrl_stop_id)
            /\ led_ctrl_step_id' = 0
            /\ led_ctrl_stop_id' = 0
            /\ Issue(QuitCancel(led_ctrl_step_id)
                       \o QuitCancel(led_ctrl_stop_id)
                       \o led_ctrl_wait_kernel
                       \o led_ctrl_set_rgb_blink(0, 0)
                       \o led_ctrl_set_rgb_value(0, 0, 0)
                       \o led_ctrl_close_sysfs_files)
            /\ led_control' = led_control_close(led_control)
       ELSE /\ Issue(<< >>)
            /\ UNCHANGED <<sources, led_ctrl_step_id, led_ctrl_stop_id, led_control>>

\* variant: a period of exactly 50 ms is taken as too short
PatternArgs_strict(r, g, b, ms_on, ms_off) ==
  LET on0  == clamp_to_range(0, 60000, ms_on)
      off0 == clamp_to_range(0, 60000, ms_off)
      short == on0 <= 50 \/ off0 <= 50
  IN  [r |-> clamp_to_range(0, 255, r),
       g |-> clamp_to_range(0, 255, g),
       b |-> clamp_to_range(0, 255, b),
       on |-> IF short THEN 0 ELSE on0,
       off |-> IF short THEN 0 ELSE off0]

\* the values set_pattern passes on after clamping
PatternArgs(r, g, b, ms_on, ms_off) ==
  LET on0  == clamp_to_range(0, 60000, ms_on)
      off0 == clamp_to_range(0, 60000, ms_off)
      short == on0 < 50 \/ off0 < 50
  IN  [r |-> clamp_to_range(0, 255, r),
       g |-> clamp_to_range(0, 255, g),
       b |-> clamp_to_range(0, 255, b),
       on |-> IF short THEN 0 ELSE on0,
       off |-> IF short THEN 0 ELSE off0]

\* The plugin's user (mce) calls init when the plugin is loaded, before any
\* pattern is set; the libhybris fallback is an external collaborator whose
\* set_light call succeeds or fails (fallback_ok).
mce_hybris_indicator_set_pattern(r, g, b, ms_on, ms_off, fallback_ok) ==
  LET a   == PatternArgs(r, g, b, ms_on, ms_off)
      req == [led_ctrl_curr EXCEPT !.r = a.r, !.g = a.g, !.b = a.b,
                                   !.on = a.on, !.off = a.off]
  IN  /\ init_done
      /\ Issue(<< >>)
      /\ UNCHANGED <<led_ctrl_uses_sysfs, init_done, init_ack, led_control>>
      /\ IF led_ctrl_uses_sysfs
           THEN /\ led_ctrl_start(req)
                /\ ev' = Event("set_pattern", req, TRUE, TRUE)
           ELSE /\ ev' = Event("set_pattern", NoReq, FALSE, init_ack /\ fallback_ok)
                /\ UNCHANGED <<led_ctrl_curr, led_ctrl_breathe, led_ctrl_stop_id,
                               led_ctrl_step_id, reset_blinking, sources>>

\* variant: the request is started whether or not sysfs controls exist
mce_hybris_indicator_enable_breathing_unguarded(enable) ==
  LET work == [led_ctrl_curr EXCEPT !.breathe = enable]
  IN  /\ Issue(<< >>)
      /\ UNCHANGED <<led_ctrl_uses_sysfs, init_done, init_ack, led_control>>
      /\ led_ctrl_start(work)
      /\ ev' = Event("enable_breathing", work, TRUE, TRUE)

mce_hybris_indicator_enable_breathing(enable) ==
  LET work == [led_ctrl_curr EXCEPT !.breathe = enable]
  IN  /\ Issue(<< >>)
      /\ UNCHANGED <<led_ctrl_uses_sysfs, init_done, init_ack, led_control>>
      /\ IF led_ctrl_uses_sysfs
           THEN /\ led_ctrl_start(work)
                /\ ev' = Event("enable_breathing", work, TRUE, TRUE)
           ELSE /\ ev' = Event("enable_breathing", NoReq, FALSE, TRUE)
                /\ UNCHANGED <<led_ctrl_curr, led_ctrl_breathe, led_ctrl_stop_id,
                               led_ctrl_step_id, reset_blinking, sources>>

\* variant: the new level is written to the led inside the call
mce_hybris_indicator_set_brightness_direct(level) ==
  LET work == [led_ctrl_curr EXCEPT !.level = clamp_to_range(1, 255, level)]
  IN  /\ UNCHANGED <<led_ctrl_uses_sysfs, init_done, init_ack, led_control>>
      /\ IF led_ctrl_uses_sysfs
           THEN /\ led_ctrl_start(work)
                /\ Issue(led_ctrl_set_rgb_value(
                           led_util_scale_value(work.r, work.level),
                           led_util_scale_value(work.g, work.level),
                           led_util_scale_value(work.b, work.level)))
                /\ ev' = Event("set_brightness", work, TRUE, TRUE)
           ELSE /\ Issue(<< >>)
                /\ ev' = Event("set_brightness", NoReq, FALSE, TRUE)
                /\ UNCHANGED <<led_ctrl_curr, led_ctrl_breathe, led_ctrl_stop_id,
                               led_ctrl_step_id, reset_blinking, sources>>

mce_hybris_indicator_set_brightness(level) ==
  LET work == [led_ctrl_curr EXCEPT !.level = clamp_to_range(1, 255, level)]
  IN  /\ Issue(<< >>)
      /\ UNCHANGED <<led_ctrl_uses_sysfs, init_done, init_ack, led_control>>
      /\ IF led_ctrl_uses_sysfs
           THEN /\ led_ctrl_start(work)
                /\ ev' = Event("set_brightness", work, TRUE, TRUE)
           ELSE /\ ev' = Event("set_brightness", NoReq, FALSE, TRUE)
                /\ UNCHANGED <<led_ctrl_curr, led_ctrl_breathe, led_ctrl_stop_id,
                               led_ctrl_step_id, reset_blinking, sources>>

(***************************************************************************)
(* The controller: state after program load, and its operations            *)
(***************************************************************************)
\* The sysfs side before the first write.  issued: the colour and timing
\* writes issued so far; first: the colour written first (<< >>: none so
\* far); failing: the writes of the next operation fail; lost: the last
\* colour write failed, the led holds an older colour; colour, timing: the
\* colour and the timing written last (<< >>: none so far); left, fires,
\* read: the reads of the ramp table by the step timer armed last.
NoHw ==
  [issued |-> {}, first |-> << >>, failing |-> FALSE, lost |-> FALSE,
   colour |-> << >>, timing |-> << >>, left |-> 0, fires |-> 0, read |-> -1]

NoUnit == [fn |-> "none", arg |-> NoReq, res |-> NoReq, done |-> FALSE]

Unit(fn, arg) == [fn |-> fn, arg |-> arg, res |-> NoReq, done |-> FALSE]

InitCtrl ==
  /\ led_ctrl_curr = Request(-1, -1, -1, 0, 0, 255, FALSE)
  /\ led_ctrl_breathe = [step |-> 0, steps |-> 0, delay |-> 0,
                         value |-> << >>]
  /\ led_ctrl_stop_id = 0
  /\ led_ctrl_step_id = 0
  /\ reset_blinking = TRUE
  /\ led_ctrl_uses_sysfs = FALSE
  /\ init_done = FALSE
  /\ init_ack = FALSE
  /\ led_control = ControlClosed
  /\ sources = {}
  /\ hw_log = << >>
  /\ hw = NoHw
  /\ ev = Event("load", NoReq, FALSE, TRUE)

NoScript == [phase |-> "free", accepted |-> FALSE, settle |-> 0, wraps |-> 0]

Init ==
  /\ InitCtrl
  /\ unit = NoUnit
  /\ script = NoScript

\* The inputs an operation does not read on its path are fixed.
DoInit ==
  \E fs \in IF init_done THEN {CHOOSE f \in FsConfigs : TRUE} ELSE FsConfigs :
    \E fallback_ok \in IF init_done \/ led_control_probe(fs).name # "none"
                          THEN {TRUE} ELSE BOOLEAN :
      mce_hybris_indicator_init(fs, fallback_ok)

DoSetPattern ==
  \E p \in Patterns,
     fallback_ok \in IF led_ctrl_uses_sysfs \/ ~init_ack THEN {TRUE} ELSE BOOLEAN :
    mce_hybris_indicator_set_pattern(p[1], p[2], p[3], p[4], p[5], fallback_ok)

DoEnableBreathing ==
  \E enable \in BOOLEAN : mce_hybris_indicator_enable_breathing(enable)

DoSetBrightness ==
  \E level \in Levels : mce_hybris_indicator_set_brightness(level)

DoQuit == mce_hybris_indicator_quit

\* the controller runs on its own: no single-function run, no script
Free == UNCHANGED <<unit, script, hw>>

Next ==
  \/ DoInit /\ Free
  \/ DoSetPattern /\ Free
  \/ DoEnableBreathing /\ Free
  \/ DoSetBrightness /\ Free
  \/ DoQuit /\ Free
  \/ TimerFire /\ Free

Spec == Init /\ [][Next]_vars

(***************************************************************************)
(* Vocabulary of the properties                                            *)
(***************************************************************************)
SameFields(a, b) ==
  /\ a.r = b.r /\ a.g = b.g /\ a.b = b.b
  /\ a.on = b.on /\ a.off = b.off
  /\ a.level = b.level /\ a.breathe = b.breathe

Pending(cb) == {s \in sources : s.cb = cb}

PendingNext(cb) == {s \in sources' : s.cb = cb}

SettlePending == Pending("led_ctrl_stop_cb") # {}

StepOrStaticPending ==
  Pending("led_ctrl_step_cb") \cup Pending("led_ctrl_static_cb") # {}

WritesOf(log, kind) == SelectSeq(log, LAMBDA w : w[1] = kind)

BackendActive == led_control.value /\ led_control.blink

\* the sanitized form of the request handed over by the step's operation
WorkNext == led_request_sanitize(ev'.req)

BreatheContinues(old, new) ==
  /\ led_request_get_style(old) = "STYLE_BREATH"
  /\ led_request_get_style(new) = "STYLE_BREATH"
  /\ old.on = new.on
  /\ old.off = new.off

\* the step delay and step count the ramp has for a total period t
ExpectDelay(t) == Max(20, (t + 255) \div 256)

ExpectSteps(t) == (t + ExpectDelay(t) - 1) \div ExpectDelay(t)

(***************************************************************************)
(* C1: a request whose sanitized form equals the Current Pattern State     *)
(* field by field is a no-op: the call issues no hardware write, arms and  *)
(* cancels no timer, and leaves the Current Pattern State, the ramp table  *)
(* (samples, step count, delay, step index) and the clear-blink flag       *)
(* unchanged.                                                              *)
(***************************************************************************)
C1_EqualRequestIsNoop ==
  [][(ev'.started /\ SameFields(WorkNext, led_ctrl_curr))
       => /\ hw_log' = << >>
          /\ UNCHANGED <<led_ctrl_curr, led_ctrl_breathe, reset_blinking,
                         led_ctrl_stop_id, led_ctrl_step_id, sources>>]_vars

\* an equal request was submitted while a coloured pattern had a timer pending
C1_Witness ==
  /\ ev.started
  /\ ~ev.accepted
  /\ SameFields(led_request_sanitize(ev.req), led_ctrl_curr)
  /\ led_request_has_color(led_ctrl_curr)
  /\ sources # {}

(***************************************************************************)
(* C2: while the Current Pattern State is BREATHE, a differing request     *)
(* that sanitizes to BREATHE with the same on_ms and off_ms cancels no     *)
(* timer, arms no settle timer and leaves the ramp table (samples, step    *)
(* count, delay, step index) as it was; only the Current Pattern State     *)
(* changes, and every step-timer fire writes the colour and level of the   *)
(* Current Pattern State of that moment.                                   *)
(***************************************************************************)
StepWriteUsesCurr ==
  (ev.op = "led_ctrl_step_cb" /\ ev.ret /\ BackendActive)
    => LET v     == RampValue(led_ctrl_breathe.value, led_ctrl_breathe.step - 1)
           sc(c) == led_util_scale_value(
                      led_util_scale_value(c, led_ctrl_curr.level), v)
       IN  /\ led_ctrl_breathe.step >= 1
           /\ WritesOf(hw_log, "value") =
                << <<"value", sc(led_ctrl_curr.r), sc(led_ctrl_curr.g),
                     sc(led_ctrl_curr.b)>> >>
           /\ WritesOf(hw_log, "blink") = << >>

C2_BreatheContinuation ==
  /\ [][(/\ ev'.started
         /\ ~SameFields(WorkNext, led_ctrl_curr)
         /\ BreatheContinues(led_ctrl_curr, WorkNext))
          => /\ led_ctrl_curr' = WorkNext
             /\ hw_log' = << >>
             /\ UNCHANGED <<led_ctrl_breathe, reset_blinking, led_ctrl_stop_id,
                            led_ctrl_step_id, sources>>]_vars
  /\ []StepWriteUsesCurr

\* a colour or level change was accepted without restart while the step
\* timer was running in the middle of the ramp
C2_Witness ==
  /\ ev.started
  /\ ev.accepted
  /\ ~ev.restart
  /\ Pending("led_ctrl_step_cb") # {}
  /\ led_ctrl_breathe.step > 1
  /\ led_ctrl_breathe.step < led_ctrl_breathe.steps

(***************************************************************************)
(* C3: every accepted request that is not a BREATHE-to-BREATHE change with *)
(* equal timing is a restart: right after the call no step/static timer is *)
(* pending, a settle timer is pending, the ramp delay is 0 unless the new  *)
(* style is BREATHE, and for BREATHE the ramp is the one of the new        *)
(* on_ms/off_ms.                                                           *)
(***************************************************************************)
C3_AcceptedRequestRestarts ==
  [][(/\ ev'.started
      /\ ~SameFields(WorkNext, led_ctrl_curr)
      /\ ~BreatheContinues(led_ctrl_curr, WorkNext))
       => /\ led_ctrl_curr' = WorkNext
          /\ PendingNext("led_ctrl_step_cb") = {}
          /\ PendingNext("led_ctrl_static_cb") = {}
          /\ led_ctrl_step_id' = 0
          /\ Cardinality(PendingNext("led_ctrl_stop_cb")) = 1
          /\ led_ctrl_stop_id' \in {s.id : s \in PendingNext("led_ctrl_stop_cb")}
          /\ IF led_request_get_style(WorkNext) = "STYLE_BREATH"
               THEN /\ led_ctrl_breathe'.delay =
                         ExpectDelay(WorkNext.on + WorkNext.off)
                    /\ led_ctrl_breathe'.steps =
                         ExpectSteps(WorkNext.on + WorkNext.off)
                    /\ RampValue(led_ctrl_breathe'.value, 0) = 0
               ELSE led_ctrl_breathe'.delay = 0]_vars

\* a breathing pattern with a running step timer was replaced by a breathing
\* pattern of another timing: the step timer is gone, the ramp is new
C3_Witness ==
  /\ ev.started
  /\ ev.restart
  /\ led_request_get_style(led_ctrl_curr) = "STYLE_BREATH"
  /\ led_ctrl_breathe.steps = 17
  /\ led_ctrl_breathe.step > 14
  /\ Pending("led_ctrl_step_cb") = {}
  /\ SettlePending

(***************************************************************************)
(* C4 (as amended): while a settle timer is pending, accepted requests arm *)
(* no second settle timer and leave the pending one and the clear-blink    *)
(* flag alone; when the settle timer fires, its writes are fixed by that   *)
(* flag and the Current Pattern State of that moment (timing (0,0) iff the *)
(* flag is set, then value (0,0,0) iff the flag is set or the state has no *)
(* colour) and the timer it arms by the Current Pattern State alone (none  *)
(* without colour, the step timer for BREATHE, the static timer            *)
(* otherwise).                                                             *)
(***************************************************************************)
HasColour(c) == c.r > 0 \/ c.g > 0 \/ c.b > 0

\* the writes of a log that carry timing or colour
DataWrites(log) == SelectSeq(log, LAMBDA w : w[1] \in {"blink", "value"})

SettleFired == ev'.op = "led_ctrl_stop_cb" /\ ev'.ret

C4_SettleTimerNotDuplicated ==
  /\ [](Cardinality(Pending("led_ctrl_stop_cb")) <= 1)
  /\ [][(ev'.started /\ SettlePending)
          => /\ PendingNext("led_ctrl_stop_cb") = Pending("led_ctrl_stop_cb")
             /\ led_ctrl_stop_id' = led_ctrl_stop_id
             /\ reset_blinking' = reset_blinking]_vars
  /\ [][(SettleFired /\ BackendActive)
          => /\ DataWrites(hw_log') =
                  (IF reset_blinking THEN << <<"blink", 0, 0, 0>> >> ELSE << >>)
                  \o (IF reset_blinking \/ ~HasColour(led_ctrl_curr)
                        THEN << <<"value", 0, 0, 0>> >> ELSE << >>)
             /\ PendingNext("led_ctrl_stop_cb") = {}
             /\ led_ctrl_stop_id' = 0
             /\ LET armed == sources' \ sources
                    style == led_request_get_style(led_ctrl_curr)
                IN  IF ~HasColour(led_ctrl_curr) THEN armed = {}
                    ELSE /\ Cardinality(armed) = 1
                         /\ \A s \in armed :
                              /\ s.id = led_ctrl_step_id'
                              /\ s.cb = IF style = "STYLE_BREATH"
                                          THEN "led_ctrl_step_cb"
                                          ELSE "led_ctrl_static_cb"]_vars

\* a second request was accepted while the settle timer of an earlier one
\* was still pending
C4_Witness ==
  /\ ev.started
  /\ ev.restart
  /\ ev.op = "set_pattern"
  /\ SettlePending
  /\ led_request_get_style(led_ctrl_curr) = "STYLE_BLINK"
  /\ ~reset_blinking

(***************************************************************************)
(* C4 as stated: the writes of a settle-timer fire are determined by the   *)
(* Current Pattern State at fire time (the latest accepted request), never *)
(* by an earlier superseded request.  A request of style BLINK that arms   *)
(* the settle timer itself has timing (0,0) written when it fires; so, if  *)
(* the writes depended on the state at fire time alone, every fire with    *)
(* style BLINK would write timing (0,0).                                   *)
(***************************************************************************)
C4_WritesFollowLatestRequest ==
  [][(/\ SettleFired
      /\ BackendActive
      /\ led_request_get_style(led_ctrl_curr) = "STYLE_BLINK")
       => WritesOf(hw_log', "blink") = << <<"blink", 0, 0, 0>> >>]_vars

(***************************************************************************)
(* C6: with the backend active and a coloured pattern showing,             *)
(* set_pattern(0,0,0,0,0) leaves exactly one settle timer and no other     *)
(* timer pending; the fire of that settle timer ends with the colour write *)
(* (0,0,0) and leaves no timer pending; and a timer is armed again only by *)
(* a further request.                                                      *)
(***************************************************************************)
C6_BlackPatternStopsTimers ==
  /\ [][(/\ ev'.op = "set_pattern"
         /\ ev'.started
         /\ ~HasColour(ev'.req)
         /\ HasColour(led_ctrl_curr))
          => /\ ~HasColour(led_ctrl_curr')
             /\ hw_log' = << >>
             /\ sources' = PendingNext("led_ctrl_stop_cb")
             /\ Cardinality(sources') = 1
             /\ \A s \in sources' : s.id = led_ctrl_stop_id']_vars
  /\ []((ev.op = "led_ctrl_stop_cb" /\ ev.ret /\ ~HasColour(led_ctrl_curr))
          => /\ sources = {}
             /\ led_ctrl_stop_id = 0
             /\ led_ctrl_step_id = 0
             /\ BackendActive =>
                  /\ WritesOf(hw_log, "value") = << <<"value", 0, 0, 0>> >>
                  /\ DataWrites(hw_log)[Len(DataWrites(hw_log))]
                       = <<"value", 0, 0, 0>>)
  /\ [][(sources = {} /\ sources' # {}) => ev'.started]_vars

\* breathing was stopped by the black pattern: the settle timer has fired,
\* the step index is left in the middle of the ramp, nothing is pending
C6_Witness ==
  /\ ev.op = "led_ctrl_stop_cb"
  /\ ev.ret
  /\ ~HasColour(led_ctrl_curr)
  /\ BackendActive
  /\ led_ctrl_breathe.step > 1
  /\ sources = {}
  /\ hw_log # << >>

(***************************************************************************)
(* led_request_sanitize on its own: any request, then the function         *)
(***************************************************************************)
SanitizeChannels == {0, 1, 255}

SanitizePeriods == {-1, 0, 1, 139, 140, 141, 60000}

InitSanitize ==
  /\ InitCtrl
  /\ script = NoScript
  /\ \E r \in SanitizeChannels, g \in SanitizeChannels, b \in SanitizeChannels,
        on \in SanitizePeriods, off \in SanitizePeriods, breathe \in BOOLEAN :
       unit = Unit("sanitize", Request(r, g, b, on, off, 255, breathe))

ApplySanitize ==
  /\ unit.fn = "sanitize"
  /\ ~unit.done
  /\ unit' = [unit EXCEPT !.res = led_request_sanitize(unit.arg), !.done = TRUE]
  /\ UNCHANGED <<led_ctrl_curr, led_ctrl_breathe, led_ctrl_stop_id,
                 led_ctrl_step_id, reset_blinking, led_ctrl_uses_sysfs,
                 init_done, init_ack, led_control, sources, hw_log, ev, script,
                 hw>>

SanitizeSpec == InitSanitize /\ [][ApplySanitize]_vars

Sanitized == unit.fn = "sanitize" /\ unit.done

SameColour(a, b) == a.r = b.r /\ a.g = b.g /\ a.b = b.b

(***************************************************************************)
(* C7: for a request with r=g=b=0, whatever on_ms, off_ms and breathe it   *)
(* carries, sanitization gives on_ms = off_ms = 0 and breathe = false, and *)
(* the style of the result is OFF.                                         *)
(***************************************************************************)
C7_BlackIsOff ==
  (Sanitized /\ ~HasColour(unit.arg))
    => /\ unit.res.on = 0
       /\ unit.res.off = 0
       /\ unit.res.breathe = FALSE
       /\ led_request_get_style(unit.res) = "STYLE_OFF"

\* a black request asking for breathing with a valid period was sanitized
C7_Witness ==
  /\ Sanitized
  /\ ~HasColour(unit.arg)
  /\ unit.arg.on = 141
  /\ unit.arg.off = 140
  /\ unit.arg.breathe

(***************************************************************************)
(* C8: for a coloured request with on_ms <= 0 or off_ms <= 0, sanitization *)
(* gives on_ms = off_ms = 0 and breathe = false (style STATIC), also when  *)
(* the other period is positive.                                           *)
(***************************************************************************)
C8_HalfPeriodIsStatic ==
  (Sanitized /\ HasColour(unit.arg) /\ (unit.arg.on <= 0 \/ unit.arg.off <= 0))
    => /\ unit.res.on = 0
       /\ unit.res.off = 0
       /\ unit.res.breathe = FALSE
       /\ SameColour(unit.res, unit.arg)
       /\ led_request_get_style(unit.res) = "STYLE_STATIC"

\* a coloured request with one positive and one missing period was sanitized
C8_Witness ==
  /\ Sanitized
  /\ HasColour(unit.arg)
  /\ unit.arg.on = 60000
  /\ unit.arg.off = 0
  /\ unit.arg.breathe

(***************************************************************************)
(* C9: for a coloured request with both periods positive and on_ms < 140   *)
(* or off_ms < 140, sanitization gives breathe = false also when breathing *)
(* was asked for, and keeps on_ms and off_ms (the style is BLINK).         *)
(***************************************************************************)
C9_ShortPeriodBlinks ==
  (/\ Sanitized
   /\ HasColour(unit.arg)
   /\ unit.arg.on > 0
   /\ unit.arg.off > 0
   /\ (unit.arg.on < 140 \/ unit.arg.off < 140))
    => /\ unit.res.breathe = FALSE
       /\ unit.res.on = unit.arg.on
       /\ unit.res.off = unit.arg.off
       /\ SameColour(unit.res, unit.arg)
       /\ led_request_get_style(unit.res) = "STYLE_BLINK"

\* breathing was asked for with a long on period and a short off period
C9_Witness ==
  /\ Sanitized
  /\ HasColour(unit.arg)
  /\ unit.arg.on = 60000
  /\ unit.arg.off = 139
  /\ unit.arg.breathe
  /\ ~unit.res.breathe

(***************************************************************************)
(* led_ctrl_generate_ramp on its own: any breathing period, then the       *)
(* function                                                                *)
(***************************************************************************)
RampPeriods ==
  {140, 141, 199, 500, 1000, 2559, 2560, 2561, 4980, 5000, 5121, 10000,
   30000, 59999, 60000}

InitRamp ==
  /\ InitCtrl
  /\ script = NoScript
  /\ \E on \in RampPeriods, off \in RampPeriods :
       unit = Unit("ramp", Request(0, 0, 0, on, off, 0, FALSE))

ApplyRamp ==
  /\ unit.fn = "ramp"
  /\ ~unit.done
  /\ unit' = [unit EXCEPT !.done = TRUE]
  /\ led_ctrl_breathe' =
       led_ctrl_generate_ramp(led_ctrl_breathe, unit.arg.on, unit.arg.off)
  /\ UNCHANGED <<led_ctrl_curr, led_ctrl_stop_id, led_ctrl_step_id,
                 reset_blinking, led_ctrl_uses_sysfs, init_done, init_ack,
                 led_control, sources, hw_log, ev, script, hw>>

RampSpec == InitRamp /\ [][ApplyRamp]_vars

RampDone == unit.fn = "ramp" /\ unit.done

\* a/b rounded to the nearest integer, halves up (a >= 0, b > 0)
RoundDiv(a, b) == (2 * a + b) \div (2 * b)

(***************************************************************************)
(* C10: for on_ms, off_ms in [140, 60000] the generated sample count is    *)
(* n = steps_on + steps_off with n = ceil(t/s), t = on_ms + off_ms,        *)
(* s = max(20, ceil(t/256)), steps_on = round(n*on_ms/t); it never exceeds *)
(* 256, nothing is written past the 256 entries of the table, and for      *)
(* on_ms = off_ms = 1000 the step delay is 20.  The rising part is the     *)
(* first steps_on samples: the sample at index steps_on is the peak.       *)
(***************************************************************************)
C10_RampSampleCount ==
  RampDone
    => LET on  == unit.arg.on
           off == unit.arg.off
           t   == on + off
           s   == ExpectDelay(t)
           n   == ExpectSteps(t)
           son == RoundDiv(n * on, t)
       IN  /\ led_ctrl_breathe.delay = s
           /\ led_ctrl_breathe.steps = n
           /\ n = RampStepsOn(on, off) + RampStepsOff(on, off)
           /\ RampStepsOn(on, off) = son
           /\ son >= 1
           /\ n - son >= 1
           /\ n <= 256
           /\ RampWritten(on, off) <= 256
           /\ Len(led_ctrl_breathe.value) = n
           /\ RampValue(led_ctrl_breathe.value, 0) = 0
           /\ RampValue(led_ctrl_breathe.value, son) = 255
           /\ \A i \in 0 .. (n - 2) :
                IF i < son
                  THEN RampValue(led_ctrl_breathe.value, i)
                         <= RampValue(led_ctrl_breathe.value, i + 1)
                  ELSE RampValue(led_ctrl_breathe.value, i)
                         >= RampValue(led_ctrl_breathe.value, i + 1)
           /\ (on = 1000 /\ off = 1000) => led_ctrl_breathe.delay = 20

\* the longest period was generated: 256 samples, a step delay above 20
C10_Witness ==
  /\ RampDone
  /\ unit.arg.on = 60000
  /\ unit.arg.off = 60000
  /\ led_ctrl_breathe.steps = 256
  /\ led_ctrl_breathe.delay > 20

(***************************************************************************)
(* End-to-end scenario: after any earlier use, the caller sets the pattern *)
(* (255,0,0,500,500), then enables breathing, then calls nothing more.     *)
(* script.phase is the caller's position, script.accepted whether          *)
(* enable_breathing(true) was accepted, script.settle the number of        *)
(* settle-timer fires since then, script.wraps whether the step timer has  *)
(* gone back to the start of the ramp.  The glib main loop dispatches      *)
(* every pending timeout: timer fires are weakly fair.                     *)
(***************************************************************************)
\* settle fires are counted up to this number
MaxSettleCount == 2

PatternsE2E == {<<0, 0, 0, 0, 0>>, <<255, 0, 0, 0, 0>>, <<255, 0, 0, 500, 500>>}

E2ESetPattern ==
  \E p \in PatternsE2E,
     fallback_ok \in IF led_ctrl_uses_sysfs \/ ~init_ack THEN {TRUE} ELSE BOOLEAN :
    mce_hybris_indicator_set_pattern(p[1], p[2], p[3], p[4], p[5], fallback_ok)

ScriptFree ==
  /\ script.phase = "free"
  /\ UNCHANGED <<unit, script, hw>>

ScriptPattern ==
  /\ script.phase = "free"
  /\ led_ctrl_uses_sysfs
  /\ led_control.value
  /\ mce_hybris_indicator_set_pattern(255, 0, 0, 500, 500, TRUE)
  /\ script' = [NoScript EXCEPT !.phase = "pattern"]
  /\ UNCHANGED <<unit, hw>>

ScriptBreathe ==
  /\ script.phase = "pattern"
  /\ mce_hybris_indicator_enable_breathing(TRUE)
  /\ script' = [NoScript EXCEPT !.phase = "breathing",
                                !.accepted = ev'.accepted]
  /\ UNCHANGED <<unit, hw>>

ScriptTimer ==
  /\ TimerFire
  /\ script' = IF /\ script.phase = "breathing"
                  /\ ev'.op = "led_ctrl_stop_cb"
                  /\ ev'.ret
                 THEN [script EXCEPT !.settle = Min(MaxSettleCount, script.settle + 1)]
               ELSE IF /\ script.phase = "breathing"
                       /\ ev'.op = "led_ctrl_step_cb"
                       /\ ev'.ret
                       /\ led_ctrl_breathe'.step <= led_ctrl_breathe.step
                 THEN [script EXCEPT !.wraps = 1]
                 ELSE script
  /\ UNCHANGED <<unit, hw>>

NextE2E ==
  \/ DoInit /\ ScriptFree
  \/ E2ESetPattern /\ ScriptFree
  \/ DoEnableBreathing /\ ScriptFree
  \/ DoSetBrightness /\ ScriptFree
  \/ ScriptPattern
  \/ ScriptBreathe
  \/ ScriptTimer

SpecE2E == Init /\ [][NextE2E]_vars /\ WF_vars(ScriptTimer)

Breathing == script.phase = "breathing"

\* what the scenario shows apart from the number of ramp samples
E2EBreathing(samples, rising) ==
  /\ SameColour(led_ctrl_curr, Request(255, 0, 0, 0, 0, 0, FALSE))
  /\ led_ctrl_curr.on = 500
  /\ led_ctrl_curr.off = 500
  /\ led_ctrl_curr.breathe
  /\ led_ctrl_breathe.steps = samples
  /\ led_ctrl_breathe.delay = 20
  /\ RampValue(led_ctrl_breathe.value, 0) = 0
  /\ RampValue(led_ctrl_breathe.value, rising) = 255
  /\ \A i \in 0 .. (samples - 2) :
       IF i < rising
         THEN RampValue(led_ctrl_breathe.value, i)
                < RampValue(led_ctrl_breathe.value, i + 1)
         ELSE RampValue(led_ctrl_breathe.value, i)
                > RampValue(led_ctrl_breathe.value, i + 1)
  /\ script.settle <= 1
  /\ IF SettlePending
       THEN /\ script.settle = 0
            /\ sources = Pending("led_ctrl_stop_cb")
            /\ Cardinality(sources) = 1
       ELSE /\ sources = Pending("led_ctrl_step_cb")
            /\ Cardinality(sources) = 1
            /\ \A s \in sources : s.id = led_ctrl_step_id
  /\ (script.accepted /\ script.settle = 0) => SettlePending
  /\ (ev.op = "led_ctrl_step_cb")
       => DataWrites(hw_log) =
            << <<"value",
                 led_util_scale_value(
                   led_util_scale_value(255, led_ctrl_curr.level),
                   RampValue(led_ctrl_breathe.value, led_ctrl_breathe.step - 1)),
                 0, 0>> >>

\* the step timer takes the samples one after the other, cyclically
E2ECyclic(samples) ==
  (Breathing /\ ev'.op = "led_ctrl_step_cb")
    => /\ led_ctrl_breathe'.step =
            (IF led_ctrl_breathe.step >= samples THEN 0
             ELSE led_ctrl_breathe.step) + 1
       /\ led_ctrl_breathe'.value = led_ctrl_breathe.value
       /\ led_ctrl_breathe'.steps = led_ctrl_breathe.steps

(***************************************************************************)
(* C5 (as amended): after set_pattern(255,0,0,500,500) followed by         *)
(* enable_breathing(true) with a sysfs backend active and no further       *)
(* requests, the ramp has 50 samples (25 rising, 25 falling) and step      *)
(* delay 20; the settle timer fires at most once, and once when            *)
(* enable_breathing(true) was accepted (as it is after init); then the     *)
(* recurring step timer is pending for ever, and every step fire writes a  *)
(* colour whose green and blue are 0 and whose red is                      *)
(* scale(scale(255, level), sample) for the successive samples, taken      *)
(* cyclically.                                                             *)
(***************************************************************************)
C5_BreathingEndToEnd ==
  /\ [](Breathing => E2EBreathing(50, 25))
  /\ [][E2ECyclic(50)]_vars
  /\ (Breathing /\ script.accepted) ~> (script.settle = 1)
  /\ <>[](Breathing => Pending("led_ctrl_step_cb") # {})

\* the step timer has wrapped around the ramp after the one settle fire
C5_Witness ==
  /\ Breathing
  /\ script.accepted
  /\ script.settle = 1
  /\ ev.op = "led_ctrl_step_cb"
  /\ script.wraps = 1
  /\ led_ctrl_breathe.step = 1
  /\ led_ctrl_curr.level = 100
  /\ hw_log # << >>

(***************************************************************************)
(* C5 as stated: the ramp of that scenario has 100 samples, 50 rising and  *)
(* 50 falling.                                                             *)
(***************************************************************************)
C5_HundredSamples ==
  Breathing => E2EBreathing(100, 50)

(***************************************************************************)
(* The public operations with their raw arguments: unit holds the latest   *)
(* call (function and raw arguments).  Arguments are drawn from inside and *)
(* outside the documented ranges.                                          *)
(***************************************************************************)
\* set_pattern arguments <<r, g, b, ms_on, ms_off>>
PatternsApi ==
  {<<-7, 300, 0, -5, 70000>>, <<0, 0, 0, 49, 500>>, <<255, 0, 0, 50, 60001>>,
   <<256, -1, 0, 140, 140>>}

LevelsApi == {0, 300}

Call(fn, args) == [fn |-> fn, arg |-> args, res |-> NoReq, done |-> TRUE]

\* the calls leave the sysfs side alone: they are observed by themselves
Observe == UNCHANGED <<script, hw>>

\* The outcome of the libhybris fallback is drawn only where it is read.
ApiInit ==
  /\ \E fs \in FsConfigs :
       \E fallback_ok \in IF init_done \/ led_control_probe(fs).name # "none"
                             THEN {TRUE} ELSE BOOLEAN :
         mce_hybris_indicator_init(fs, fallback_ok)
  /\ unit' = Call("init", << >>)

ApiSetPattern ==
  \E p \in PatternsApi,
     fallback_ok \in IF led_ctrl_uses_sysfs \/ ~init_ack THEN {TRUE} ELSE BOOLEAN :
    /\ mce_hybris_indicator_set_pattern(p[1], p[2], p[3], p[4], p[5], fallback_ok)
    /\ unit' = Call("set_pattern", p)

ApiEnableBreathing ==
  \E enable \in BOOLEAN :
    /\ mce_hybris_indicator_enable_breathing(enable)
    /\ unit' = Call("enable_breathing", <<enable>>)

ApiSetBrightness ==
  \E level \in LevelsApi :
    /\ mce_hybris_indicator_set_brightness(level)
    /\ unit' = Call("set_brightness", <<level>>)

ApiQuit ==
  /\ mce_hybris_indicator_quit
  /\ unit' = Call("quit", << >>)

ApiTimer ==
  /\ TimerFire
  /\ unit' = Call("timer", << >>)

NextApi ==
  \/ ApiInit /\ Observe
  \/ ApiSetPattern /\ Observe
  \/ ApiEnableBreathing /\ Observe
  \/ ApiSetBrightness /\ Observe
  \/ ApiQuit /\ Observe
  \/ ApiTimer /\ Observe

SpecApi == Init /\ [][NextApi]_vars

\* v clamped to [lo, hi]
Clamp(lo, hi, v) == Max(lo, Min(hi, v))

Called(fn) == unit'.fn = fn

\* the fields of the Current Pattern State other than level and breathe
SamePattern(a, b) ==
  /\ a.r = b.r /\ a.g = b.g /\ a.b = b.b
  /\ a.on = b.on /\ a.off = b.off

CtrlUnchanged ==
  UNCHANGED <<led_ctrl_curr, led_ctrl_breathe, led_ctrl_stop_id,
              led_ctrl_step_id, reset_blinking, sources>>

(***************************************************************************)
(* C11: with sysfs controls in use, set_pattern(r,g,b,on_ms,off_ms) hands  *)
(* the state machine a copy of the Current Pattern State whose colour is   *)
(* each argument clamped to [0,255] and whose periods are the arguments    *)
(* clamped to [0,60000], both replaced by 0 when either clamped period is  *)
(* below 50; it returns true, also when the request is a no-op.            *)
(***************************************************************************)
C11_SetPatternClamps ==
  [][(Called("set_pattern") /\ led_ctrl_uses_sysfs)
       => LET p     == unit'.arg
              on0   == Clamp(0, 60000, p[4])
              off0  == Clamp(0, 60000, p[5])
              short == on0 < 50 \/ off0 < 50
          IN  /\ ev'.started
              /\ ev'.ret
              /\ ev'.req.r = Clamp(0, 255, p[1])
              /\ ev'.req.g = Clamp(0, 255, p[2])
              /\ ev'.req.b = Clamp(0, 255, p[3])
              /\ ev'.req.on = (IF short THEN 0 ELSE on0)
              /\ ev'.req.off = (IF short THEN 0 ELSE off0)
              /\ ev'.req.level = led_ctrl_curr.level
              /\ ev'.req.breathe = led_ctrl_curr.breathe]_vars

\* a call with arguments below and above the ranges returned true as a no-op
C11_Witness ==
  /\ unit.fn = "set_pattern"
  /\ unit.arg = <<-7, 300, 0, -5, 70000>>
  /\ ev.started
  /\ ~ev.accepted
  /\ ev.ret
  /\ ev.req.g = 255
  /\ ev.req.off = 0

(***************************************************************************)
(* C12: set_brightness(level) and enable_breathing(flag) hand the state    *)
(* machine a copy of the Current Pattern State with one field changed;     *)
(* after set_brightness the Current Pattern State differs from before at   *)
(* most in level, which (with sysfs controls in use) is the argument       *)
(* clamped to [1,255]; after enable_breathing it differs at most in        *)
(* breathe; neither changes colour or on/off timing.                       *)
(***************************************************************************)
C12_OneFieldChanged ==
  [][/\ Called("set_brightness")
          => /\ SamePattern(led_ctrl_curr', led_ctrl_curr)
             /\ led_ctrl_curr'.breathe = led_ctrl_curr.breathe
             /\ led_ctrl_uses_sysfs
                  => /\ led_ctrl_curr'.level = Clamp(1, 255, unit'.arg[1])
                     /\ ev'.started
                     /\ SamePattern(ev'.req, led_ctrl_curr)
                     /\ ev'.req.breathe = led_ctrl_curr.breathe
                     /\ ev'.req.level = Clamp(1, 255, unit'.arg[1])
     /\ Called("enable_breathing")
          => /\ SamePattern(led_ctrl_curr', led_ctrl_curr)
             /\ led_ctrl_curr'.level = led_ctrl_curr.level
             /\ led_ctrl_uses_sysfs
                  => /\ ev'.started
                     /\ SamePattern(ev'.req, led_ctrl_curr)
                     /\ ev'.req.level = led_ctrl_curr.level
                     /\ ev'.req.breathe = unit'.arg[1]]_vars

\* a level below the range was accepted while the led was breathing
C12_Witness ==
  /\ unit.fn = "set_brightness"
  /\ unit.arg = <<0>>
  /\ ev.accepted
  /\ led_ctrl_curr.level = 1
  /\ led_ctrl_curr.breathe
  /\ led_ctrl_curr.on = 140
  /\ Pending("led_ctrl_step_cb") # {}

(***************************************************************************)
(* C13: without sysfs controls in use (the probe failed, or init was not   *)
(* called), enable_breathing and set_brightness change nothing: Current    *)
(* Pattern State, ramp table, timers and clear-blink flag are unchanged    *)
(* and no hardware write is issued; set_brightness still returns true.     *)
(***************************************************************************)
C13_NoBackendNoop ==
  [][(~led_ctrl_uses_sysfs
        /\ (Called("enable_breathing") \/ Called("set_brightness")))
       => /\ CtrlUnchanged
          /\ hw_log' = << >>
          /\ ~ev'.started
          /\ Called("set_brightness") => ev'.ret]_vars

\* set_brightness returned true after a probe that found no backend
C13_Witness ==
  /\ unit.fn = "set_brightness"
  /\ unit.arg = <<0>>
  /\ init_done
  /\ ~led_ctrl_uses_sysfs
  /\ ev.ret
  /\ led_ctrl_curr.r = -1

\* the steps of a quit log that are not enable writes
QuitSteps(log) == SelectSeq(log, LAMBDA w : w[1] # "enable")

QuitCancels(log) == SelectSeq(log, LAMBDA w : w[1] = "cancel")

\* the ids quit has to cancel
LiveIds == {led_ctrl_step_id, led_ctrl_stop_id} \ {0}

QuitCancelsAll ==
  /\ {QuitCancels(hw_log')[i][2] : i \in 1 .. Len(QuitCancels(hw_log'))}
       = LiveIds
  /\ sources' = {}
  /\ led_ctrl_step_id' = 0
  /\ led_ctrl_stop_id' = 0

PatternsHw ==
  {<<0, 0, 0, 0, 0>>, <<255, 0, 0, 0, 0>>, <<255, 0, 0, 100, 500>>}

\* colour <<r, g, b>> of a value write
WriteColour(w) == <<w[2], w[3], w[4]>>

\* the sysfs side after the writes of log have been issued
HwIssued(h, log) ==
  LET vals == WritesOf(log, "value")
      data == DataWrites(log)
  IN  [h EXCEPT !.issued = h.issued \cup {data[i] : i \in 1 .. Len(data)},
                !.first  = IF h.first = << >> /\ vals # << >>
                             THEN WriteColour(vals[1]) ELSE h.first]

Hardware ==
  /\ hw' = HwIssued(hw, hw_log')
  /\ UNCHANGED <<unit, script>>

HwInit ==
  \E fs \in FsConfigs :
    \E fallback_ok \in IF init_done \/ led_control_probe(fs).name # "none"
                          THEN {TRUE} ELSE BOOLEAN :
      mce_hybris_indicator_init(fs, fallback_ok)

HwSetPattern ==
  \E p \in PatternsHw,
     fallback_ok \in IF led_ctrl_uses_sysfs \/ ~init_ack THEN {TRUE} ELSE BOOLEAN :
    mce_hybris_indicator_set_pattern(p[1], p[2], p[3], p[4], p[5], fallback_ok)

NextHw ==
  \/ HwInit /\ Hardware
  \/ HwSetPattern /\ Hardware
  \/ DoEnableBreathing /\ Hardware
  \/ DoSetBrightness /\ Hardware
  \/ DoQuit /\ Hardware
  \/ TimerFire /\ Hardware

SpecHw == Init /\ [][NextHw]_vars

\* the step is the first colour write ever issued
FirstColourWrite == hw.first = << >> /\ hw'.first # << >>

\* colour of request c as a static write carries it
ScaledColour(c) ==
  <<led_util_scale_value(c.r, c.level), led_util_scale_value(c.g, c.level),
    led_util_scale_value(c.b, c.level)>>

InitCalled == ev'.op = "init"

(***************************************************************************)
(* C15 (as amended): init() probes the backends at most once over any      *)
(* number of calls, and every later call returns the first call's result   *)
(* without submitting another request; when the probe succeeds, the black  *)
(* request submitted by init is never a no-op against the initial sentinel *)
(* state, so a settle timer is armed.  The first hardware colour write     *)
(* ever issued is value (0,0,0) if the Current Pattern State is still      *)
(* black when a settle timer fires first or quit is called first; if a     *)
(* coloured STATIC or BLINK request is accepted before the settle timer    *)
(* armed by init fires, that fire writes nothing and the first colour      *)
(* write can be the colour of the later request, scaled by its level.      *)
(***************************************************************************)
C15_InitProbesOnce ==
  /\ [][(InitCalled /\ init_done)
          => /\ UNCHANGED <<led_control, led_ctrl_uses_sysfs, init_ack>>
             /\ CtrlUnchanged
             /\ ~ev'.started
             /\ hw_log' = << >>
             /\ ev'.ret = init_ack]_vars
     /\ [][led_control' # led_control
          => \/ InitCalled /\ ~init_done
             \/ ev'.op = "quit"]_vars
     /\ [][(InitCalled /\ ~init_done)
          => /\ init_done'
             /\ ev'.ret = init_ack'
             /\ led_ctrl_uses_sysfs'
                  => /\ ev'.started /\ ev'.accepted /\ ev'.ret
                     /\ led_ctrl_curr' = Request(0, 0, 0, 0, 0, 255, FALSE)
                     /\ led_ctrl_stop_id' # 0
                     /\ Cardinality(PendingNext("led_ctrl_stop_cb")) = 1
                     /\ hw_log' = << >>]_vars
     /\ [][FirstColourWrite
          => /\ hw'.first \in {<<0, 0, 0>>, ScaledColour(led_ctrl_curr)}
             /\ (~HasColour(led_ctrl_curr) \/ ev'.op = "quit")
                  => hw'.first = <<0, 0, 0>>]_vars
     /\ [][(SettleFired /\ hw.first = << >> /\ ~HasColour(led_ctrl_curr))
          => hw'.first = <<0, 0, 0>>]_vars

\* a second init, against other sysfs files, returned after black was written
C15_Witness ==
  /\ ev.op = "init"
  /\ ~ev.started
  /\ ev.ret
  /\ led_control.name = "vanilla"
  /\ hw.first = <<0, 0, 0>>
  /\ hw.issued = {<<"value", 0, 0, 0>>}

(***************************************************************************)
(* C15 as stated: the first hardware colour write ever issued is value     *)
(* (0,0,0).                                                                *)
(***************************************************************************)
C15_FirstWriteIsBlack == hw.first \in {<< >>, <<0, 0, 0>>}

\* a value write carrying the colour of the Current Pattern State was issued
ColourIssued == <<"value">> \o ScaledColour(led_ctrl_curr) \in hw.issued

\* a timing write carrying the periods of the Current Pattern State was issued
TimingIssued == <<"blink", led_ctrl_curr.on, led_ctrl_curr.off, 0>> \in hw.issued

LogSet(log) == {log[i] : i \in 1 .. Len(log)}

(***************************************************************************)
(* C20 (as amended): the Current Pattern State is the accepted target, not *)
(* a confirmed write: an accepted request replaces it inside the call,     *)
(* which issues no write; the writes follow from timer callbacks.  Every   *)
(* colour written by a settle or static fire is (0,0,0) or the colour of   *)
(* the Current Pattern State scaled by its level, every timing written is  *)
(* (0,0) or the on/off of the Current Pattern State; with the backend open *)
(* a static fire writes exactly the timing and colour of the Current       *)
(* Pattern State, and once no timer is pending a write carrying the colour *)
(* of the Current Pattern State has been issued.                           *)
(***************************************************************************)
C20_CurrIsAcceptedTarget ==
  /\ [][ev'.accepted
          => /\ led_ctrl_curr' = WorkNext
             /\ hw_log' = << >>]_vars
     /\ [][(ev'.op \in {"led_ctrl_stop_cb", "led_ctrl_static_cb"})
          => /\ UNCHANGED led_ctrl_curr
             /\ \A w \in LogSet(WritesOf(hw_log', "value")) :
                  WriteColour(w) \in {<<0, 0, 0>>, ScaledColour(led_ctrl_curr)}
             /\ \A w \in LogSet(WritesOf(hw_log', "blink")) :
                  <<w[2], w[3]>> \in {<<0, 0>>, <<led_ctrl_curr.on, led_ctrl_curr.off>>}]_vars
     /\ [][(ev'.op = "led_ctrl_static_cb" /\ ev'.ret /\ BackendActive)
          => DataWrites(hw_log') =
               << <<"blink", led_ctrl_curr.on, led_ctrl_curr.off, 0>>,
                  <<"value">> \o ScaledColour(led_ctrl_curr) >>]_vars
     /\ []((led_ctrl_uses_sysfs /\ BackendActive /\ sources = {})
             => ColourIssued)

\* an accepted coloured target that no write has carried yet
C20_Witness ==
  /\ ev.accepted
  /\ ev.op = "set_pattern"
  /\ led_ctrl_curr.r = 255
  /\ led_ctrl_curr.on = 100
  /\ SettlePending
  /\ ~ColourIssued
  /\ ~TimingIssued

(***************************************************************************)
(* C20 as stated: in every reachable state with sysfs controls in use, a   *)
(* hardware write carrying the colour and a write carrying the timing of   *)
(* the Current Pattern State have already been issued.                     *)
(***************************************************************************)
C20_CurrAlreadyWritten ==
  (led_ctrl_uses_sysfs /\ BackendActive) => (ColourIssued /\ TimingIssued)

(***************************************************************************)
(* The controller on unreliable hardware.  A sysfs write is a dprintf or   *)
(* write on an append-mode descriptor; whether the writes of an operation  *)
(* reach the led is the kernel's choice: they fail when hw.failing, and    *)
(* hw.lost tells that the last colour write failed.                        *)
(***************************************************************************)
PatternsFail ==
  {<<255, 0, 0, 0, 0>>, <<255, 0, 0, 100, 500>>, <<255, 0, 0, 140, 140>>}

HwHeld(h, log, failing) ==
  [h EXCEPT !.lost = IF WritesOf(log, "value") # << >> THEN h.failing
                     ELSE h.lost,
            !.failing = failing]

Unreliable ==
  /\ \E failing \in BOOLEAN : hw' = HwHeld(hw, hw_log', failing)
  /\ UNCHANGED <<unit, script>>

FailSetPattern ==
  \E p \in PatternsFail,
     fallback_ok \in IF led_ctrl_uses_sysfs \/ ~init_ack THEN {TRUE} ELSE BOOLEAN :
    mce_hybris_indicator_set_pattern(p[1], p[2], p[3], p[4], p[5], fallback_ok)

NextFail ==
  \/ DoInit /\ Unreliable
  \/ FailSetPattern /\ Unreliable
  \/ DoEnableBreathing /\ Unreliable
  \/ DoSetBrightness /\ Unreliable
  \/ DoQuit /\ Unreliable
  \/ TimerFire /\ Unreliable

SpecFail == Init /\ [][NextFail]_vars

TimerStep ==
  ev'.op \in {"led_ctrl_stop_cb", "led_ctrl_static_cb", "led_ctrl_step_cb"}

StaticFired == ev'.op = "led_ctrl_static_cb" /\ ev'.ret

StepFired == ev'.op = "led_ctrl_step_cb" /\ ev'.ret

RampTableUnchanged ==
  /\ led_ctrl_breathe'.steps = led_ctrl_breathe.steps
  /\ led_ctrl_breathe'.delay = led_ctrl_breathe.delay
  /\ led_ctrl_breathe'.value = led_ctrl_breathe.value

(***************************************************************************)
(* C19: hardware writes are fire-and-forget.  Whether or not the writes of *)
(* this or of any earlier operation failed: the Current Pattern State      *)
(* changes only by an accepted request, to the sanitized request; writes   *)
(* are issued by timer fires and quit only, each at most once per fire; a  *)
(* static fire issues its two writes and leaves no timer behind, so        *)
(* nothing is retried; a step fire issues one colour write, advances the   *)
(* ramp position and keeps its timer; a settle fire arms the next timer    *)
(* iff the state has colour; no timer fire changes the ramp table.         *)
(***************************************************************************)
C19_WritesFireAndForget ==
  [][/\ led_ctrl_curr' # led_ctrl_curr
          => ev'.accepted /\ led_ctrl_curr' = WorkNext
     /\ DataWrites(hw_log') # << >>
          => /\ TimerStep \/ ev'.op = "quit"
             /\ Cardinality(LogSet(DataWrites(hw_log'))) = Len(DataWrites(hw_log'))
     /\ TimerStep
          => /\ RampTableUnchanged
             /\ ev'.ret => \E src \in sources : src.cb = ev'.op
     /\ StaticFired
          => /\ sources' = {}
             /\ led_ctrl_step_id' = 0
             /\ UNCHANGED led_ctrl_breathe
             /\ BackendActive
                  => DataWrites(hw_log') =
                       << <<"blink", led_ctrl_curr.on, led_ctrl_curr.off, 0>>,
                          <<"value">> \o ScaledColour(led_ctrl_curr) >>
     /\ StepFired
          => /\ sources' = sources
             /\ UNCHANGED <<led_ctrl_step_id, led_ctrl_stop_id>>
             /\ led_ctrl_breathe'.step = 1 + (led_ctrl_breathe.step % led_ctrl_breathe.steps)
             /\ BackendActive => Len(DataWrites(hw_log')) = 1
     /\ SettleFired
          => /\ led_ctrl_stop_id' = 0
             /\ UNCHANGED led_ctrl_breathe
             /\ Cardinality(sources') = (IF HasColour(led_ctrl_curr) THEN 1 ELSE 0)
             /\ HasColour(led_ctrl_curr) <=> led_ctrl_step_id' # 0]_vars

\* the writes of a static fire failed; the led is left alone, nothing pending
C19_Witness ==
  /\ ev.op = "led_ctrl_static_cb"
  /\ ev.ret
  /\ hw.lost
  /\ BackendActive
  /\ HasColour(led_ctrl_curr)
  /\ sources = {}
  /\ led_ctrl_step_id = 0

(***************************************************************************)
(* Probing at the level of the sysfs attribute files.  A descriptor field  *)
(* holds the handle it refers to, or NoFd for -1; open is the set of       *)
(* handles the process holds.  Operators pass on a record of open and the  *)
(* channel state self (and res, the result so far).                        *)
(***************************************************************************)
NoFd == << >>

Handle(family, ch, attr) == <<family, ch, attr>>

led_util_close_file(open, fd) ==
  IF fd # NoFd THEN [open |-> open \ {fd}, fd |-> NoFd]
  ELSE [open |-> open, fd |-> fd]

\* ok: whether open(path, O_WRONLY|O_APPEND) succeeds
led_util_open_file(open, fd, h, ok) ==
  IF ok THEN [open |-> led_util_close_file(open, fd).open \cup {h},
              fd |-> h, res |-> TRUE]
  ELSE [open |-> led_util_close_file(open, fd).open, fd |-> NoFd, res |-> FALSE]

\* led_util_close_file(&self->field)
CloseField(k, field) ==
  [open |-> led_util_close_file(k.open, k.self[field]).open,
   self |-> [k.self EXCEPT ![field] = led_util_close_file(k.open, k.self[field]).fd]]

\* self->maxval = led_util_read_number(path->max), and the test <= 0
ReadMax(k, max) ==
  [open |-> k.open, self |-> [k.self EXCEPT !.maxval = max], res |-> max > 0]

\* led_util_open_file(&self->field, path), skipped once an earlier step failed
OpenField(k, field, h, ok) ==
  IF ~k.res THEN k
  ELSE [open |-> led_util_open_file(k.open, k.self[field], h, ok).open,
        self |-> [k.self EXCEPT
                    ![field] = led_util_open_file(k.open, k.self[field], h, ok).fd],
        res  |-> ok]

led_state_vanilla_init ==
  [maxval |-> -1, fd_val |-> NoFd, fd_on |-> NoFd, fd_off |-> NoFd]

led_state_vanilla_close(open, self) ==
  CloseField(CloseField(CloseField([open |-> open, self |-> self],
                                   "fd_on"), "fd_off"), "fd_val")

\* cleanup: if( !res ) led_state_vanilla_close(self)
VanillaCleanup(k) ==
  IF k.res THEN k
  ELSE [open |-> led_state_vanilla_close(k.open, k.self).open,
        self |-> led_state_vanilla_close(k.open, k.self).self,
        res  |-> FALSE]

\* f: what the files of channel ch give (max read, and whether each opens)
led_state_vanilla_probe(open, self, ch, f) ==
  VanillaCleanup(
    OpenField(
      OpenField(
        OpenField(ReadMax(led_state_vanilla_close(open, self), f.max),
                  "fd_val", Handle("vanilla", ch, "val"), f.val),
        "fd_on", Handle("vanilla", ch, "on"), f.on),
      "fd_off", Handle("vanilla", ch, "off"), f.off))

led_state_hammerhead_init ==
  [maxval |-> -1, fd_val |-> NoFd, fd_on_off |-> NoFd, fd_enable |-> NoFd]

led_state_hammerhead_close(open, self) ==
  CloseField(CloseField(CloseField([open |-> open, self |-> self],
                                   "fd_val"), "fd_on_off"), "fd_enable")

HammerheadCleanup(k) ==
  IF k.res THEN k
  ELSE [open |-> led_state_hammerhead_close(k.open, k.self).open,
        self |-> led_state_hammerhead_close(k.open, k.self).self,
        res  |-> FALSE]

led_state_hammerhead_probe(open, self, ch, f) ==
  HammerheadCleanup(
    OpenField(
      OpenField(
        OpenField(ReadMax(led_state_hammerhead_close(open, self), f.max),
                  "fd_val", Handle("hammerhead", ch, "val"), f.val),
        "fd_on_off", Handle("hammerhead", ch, "on_off"), f.on_off),
      "fd_enable", Handle("hammerhead", ch, "enable"), f.enable))

\* state[ch] and open after the call c on channel ch
ChannelAfter(F, ch, c) ==
  [F EXCEPT !.open = c.open, !.state = [F.state EXCEPT ![ch] = c.self]]

VanillaClose(F, ch) ==
  ChannelAfter(F, ch, led_state_vanilla_close(F.open, F.state[ch]))

HammerheadClose(F, ch) ==
  ChannelAfter(F, ch, led_state_hammerhead_close(F.open, F.state[ch]))

\* variant: the close callback releases the first channel only
led_control_vanilla_close_cb_first(F) == VanillaClose(F, 1)

led_control_vanilla_close_cb(F) ==
  VanillaClose(VanillaClose(VanillaClose(F, 1), 2), 3)

led_control_hammerhead_close_cb(F) ==
  HammerheadClose(HammerheadClose(HammerheadClose(F, 1), 2), 3)

\* one operand of the && chain: channel ch is probed if the ones before
\* succeeded; tried lists the channels probed
ChannelProbed(F, ch, family, p) ==
  [open |-> p.open, state |-> [F.state EXCEPT ![ch] = p.self], res |-> p.res,
   tried |-> Append(F.tried, <<family, ch>>)]

VanillaChannel(F, ch, f) ==
  IF ~F.res THEN F
  ELSE ChannelProbed(F, ch, "vanilla",
                     led_state_vanilla_probe(F.open, F.state[ch], ch, f))

HammerheadChannel(F, ch, f) ==
  IF ~F.res THEN F
  ELSE ChannelProbed(F, ch, "hammerhead",
                     led_state_hammerhead_probe(F.open, F.state[ch], ch, f))

\* led_control_vanilla_probe on the files
VanillaFilesProbe(open, files) ==
  LET F == VanillaChannel(
             VanillaChannel(
               VanillaChannel(
                 [open |-> open, res |-> TRUE, tried |-> << >>,
                  state |-> <<led_state_vanilla_init, led_state_vanilla_init,
                              led_state_vanilla_init>>],
                 1, files[1]),
               2, files[2]),
             3, files[3])
  IN  IF F.res THEN F ELSE led_control_vanilla_close_cb(F)

HammerheadFilesProbe(open, files) ==
  LET F == HammerheadChannel(
             HammerheadChannel(
               HammerheadChannel(
                 [open |-> open, res |-> TRUE, tried |-> << >>,
                  state |-> <<led_state_hammerhead_init, led_state_hammerhead_init,
                              led_state_hammerhead_init>>],
                 1, files[1]),
               2, files[2]),
             3, files[3])
  IN  IF F.res THEN F ELSE led_control_hammerhead_close_cb(F)

\* outcome of each channel probe, as led_control_probe takes it
ChannelOutcomes(files) ==
  [vanilla |->
     [ch \in 1 .. 3 |->
        led_state_vanilla_probe({}, led_state_vanilla_init, ch,
                                files.vanilla[ch]).res],
   hammerhead |->
     [ch \in 1 .. 3 |->
        led_state_hammerhead_probe({}, led_state_hammerhead_init, ch,
                                   files.hammerhead[ch]).res]]

\* the || of led_control_probe: the second operand runs if the first failed;
\* between is what is held open when the vanilla probe has ended
HammerheadAfter(v, h) ==
  [name |-> IF h.res THEN "hammerhead" ELSE "none",
   open |-> h.open, tried |-> v.tried \o h.tried, between |-> v.open,
   vanilla |-> v.state, hammerhead |-> h.state]

VanillaOr(v, files) ==
  IF v.res
    THEN [name |-> "vanilla", open |-> v.open, tried |-> v.tried,
          between |-> v.open, vanilla |-> v.state,
          hammerhead |-> <<led_state_hammerhead_init, led_state_hammerhead_init,
                           led_state_hammerhead_init>>]
    ELSE HammerheadAfter(v, HammerheadFilesProbe(v.open, files.hammerhead))

\* led_control_probe on the files
FilesProbe(files) == VanillaOr(VanillaFilesProbe({}, files.vanilla), files)

(***************************************************************************)
(* init on its own, against every outcome of the attribute files of one    *)
(* family and typical outcomes of the other                                *)
(***************************************************************************)
MaxReads == {-1, 0, 255}

VanillaFiles ==
  {[max |-> m, val |-> a, on |-> b, off |-> c] :
     m \in MaxReads, a \in BOOLEAN, b \in BOOLEAN, c \in BOOLEAN}

HammerheadFiles ==
  {[max |-> m, val |-> a, on_off |-> b, enable |-> c] :
     m \in MaxReads, a \in BOOLEAN, b \in BOOLEAN, c \in BOOLEAN}

VanillaUsable == [max |-> 255, val |-> TRUE, on |-> TRUE, off |-> TRUE]

HammerheadUsable == [max |-> 255, val |-> TRUE, on_off |-> TRUE, enable |-> TRUE]

\* all channels usable, or the first failure at R, G or B
VanillaTypical ==
  {<<VanillaUsable, VanillaUsable, VanillaUsable>>,
   <<[VanillaUsable EXCEPT !.max = 0], VanillaUsable, VanillaUsable>>,
   <<VanillaUsable, [VanillaUsable EXCEPT !.on = FALSE], VanillaUsable>>,
   <<VanillaUsable, VanillaUsable, [VanillaUsable EXCEPT !.off = FALSE]>>}

HammerheadTypical ==
  {<<HammerheadUsable, HammerheadUsable, HammerheadUsable>>,
   <<[HammerheadUsable EXCEPT !.max = -1], HammerheadUsable, HammerheadUsable>>,
   <<HammerheadUsable, [HammerheadUsable EXCEPT !.val = FALSE], HammerheadUsable>>,
   <<HammerheadUsable, HammerheadUsable, [HammerheadUsable EXCEPT !.enable = FALSE]>>}

InitProbe ==
  /\ InitCtrl
  /\ script = NoScript
  /\ \/ \E r \in VanillaFiles, g \in VanillaFiles, b \in VanillaFiles,
           h \in HammerheadTypical :
          unit = Unit("probe", [vanilla |-> <<r, g, b>>, hammerhead |-> h])
     \/ \E r \in HammerheadFiles, g \in HammerheadFiles, b \in HammerheadFiles,
           v \in VanillaTypical :
          unit = Unit("probe", [vanilla |-> v, hammerhead |-> <<r, g, b>>])

ApplyProbe ==
  /\ unit.fn = "probe"
  /\ ~unit.done
  /\ mce_hybris_indicator_init(ChannelOutcomes(unit.arg), TRUE)
  /\ unit' = [unit EXCEPT !.res = FilesProbe(unit.arg), !.done = TRUE]
  /\ UNCHANGED <<script, hw>>

ProbeSpec == InitProbe /\ [][ApplyProbe]_vars

Probed == unit.fn = "probe" /\ unit.done

\* every attribute file of the channel is as the probe needs it
UsableVanilla(f) == f.max > 0 /\ f.val /\ f.on /\ f.off

UsableHammerhead(f) == f.max > 0 /\ f.val /\ f.on_off /\ f.enable

AllVanilla == \A ch \in 1 .. 3 : UsableVanilla(unit.arg.vanilla[ch])

AllHammerhead == \A ch \in 1 .. 3 : UsableHammerhead(unit.arg.hammerhead[ch])

TriedOf(family) ==
  SelectSeq(unit.res.tried, LAMBDA t : t[1] = family)

HandlesOf(family) ==
  {Handle(family, ch, attr) :
     ch \in 1 .. 3,
     attr \in IF family = "vanilla" THEN {"val", "on", "off"}
              ELSE {"val", "on_off", "enable"}}

\* the descriptors the channel states of both families refer to
HeldVanilla ==
  UNION {{unit.res.vanilla[ch].fd_val, unit.res.vanilla[ch].fd_on,
          unit.res.vanilla[ch].fd_off} : ch \in 1 .. 3} \ {NoFd}

HeldHammerhead ==
  UNION {{unit.res.hammerhead[ch].fd_val, unit.res.hammerhead[ch].fd_on_off,
          unit.res.hammerhead[ch].fd_enable} : ch \in 1 .. 3} \ {NoFd}

(***************************************************************************)
(* C16: probing tries Vanilla first and Hammerhead second: if all three    *)
(* Vanilla channels open, Vanilla is selected and Hammerhead is never      *)
(* probed; Hammerhead is selected only if Vanilla failed and all three     *)
(* Hammerhead channels open; if both fail the probe reports failure and    *)
(* the control object has no enable, blink, value or close operation.      *)
(***************************************************************************)
C16_VanillaThenHammerhead ==
  Probed
    => /\ unit.res.name = led_control.name
       /\ unit.res.tried[1] = <<"vanilla", 1>>
       /\ AllVanilla
            => /\ led_control = ControlVanilla
               /\ led_ctrl_uses_sysfs
               /\ TriedOf("hammerhead") = << >>
               /\ unit.res.tried = << <<"vanilla", 1>>, <<"vanilla", 2>>,
                                      <<"vanilla", 3>> >>
       /\ (~AllVanilla /\ AllHammerhead)
            => /\ led_control = ControlHammerhead
               /\ led_ctrl_uses_sysfs
               /\ unit.res.tried = TriedOf("vanilla") \o TriedOf("hammerhead")
               /\ Len(TriedOf("hammerhead")) = 3
       /\ led_control.name = "hammerhead" => (~AllVanilla /\ AllHammerhead)
       /\ (~AllVanilla /\ ~AllHammerhead)
            => /\ ~led_ctrl_uses_sysfs
               /\ led_control.name = "none"
               /\ ~led_control.enable /\ ~led_control.blink
               /\ ~led_control.value /\ ~led_control.close
               /\ sources = {}

\* both families were usable; Vanilla was taken and Hammerhead left alone
C16_Witness ==
  /\ Probed
  /\ AllVanilla
  /\ AllHammerhead
  /\ led_control.name = "vanilla"
  /\ unit.res.open = HandlesOf("vanilla")
  /\ Len(unit.res.tried) = 3

(***************************************************************************)
(* C17: channel handles are opened all-or-nothing: for every combination   *)
(* of per-attribute open/read outcomes (max_brightness unreadable or <= 0  *)
(* included), after probing either all handles of all three channels of    *)
(* exactly one family are open and none of the other family, or no handle  *)
(* is open at all; when the Vanilla family fails at channel R, G or B,     *)
(* every handle opened so far is closed before Hammerhead is tried.        *)
(***************************************************************************)
C17_HandlesAllOrNothing ==
  Probed
    => /\ unit.res.open \in {HandlesOf("vanilla"), HandlesOf("hammerhead"), {}}
       /\ unit.res.open = HeldVanilla \cup HeldHammerhead
       /\ led_control.name = "vanilla" <=> unit.res.open = HandlesOf("vanilla")
       /\ led_control.name = "hammerhead"
            <=> unit.res.open = HandlesOf("hammerhead")
       /\ led_control.name = "none" <=> unit.res.open = {}
       /\ ~AllVanilla => unit.res.between = {}

\* Vanilla failed at its last attribute (blue off) with eight handles open,
\* then Hammerhead failed at channel G: nothing is left open
C17_Witness ==
  /\ Probed
  /\ unit.arg.vanilla = <<VanillaUsable, VanillaUsable,
                          [VanillaUsable EXCEPT !.off = FALSE]>>
  /\ UsableHammerhead(unit.arg.hammerhead[1])
  /\ unit.arg.hammerhead[2].max = 255
  /\ unit.arg.hammerhead[2].val
  /\ ~unit.arg.hammerhead[2].on_off
  /\ unit.res.tried = << <<"vanilla", 1>>, <<"vanilla", 2>>, <<"vanilla", 3>>,
                         <<"hammerhead", 1>>, <<"hammerhead", 2>> >>
  /\ unit.res.open = {}
  /\ led_control = ControlClosed

(***************************************************************************)
(* led_util_scale_value on its own: every value in [0,255] against every   *)
(* max_brightness in [1,255]                                               *)
(***************************************************************************)
InitScale ==
  /\ InitCtrl
  /\ script = NoScript
  /\ \E value \in 0 .. 255, max \in 1 .. 255 : unit = Unit("scale", <<value, max>>)

ApplyScale ==
  /\ unit.fn = "scale"
  /\ ~unit.done
  /\ unit' = [unit EXCEPT !.res = led_util_scale_value(unit.arg[1], unit.arg[2]),
                          !.done = TRUE]
  /\ UNCHANGED <<led_ctrl_curr, led_ctrl_breathe, led_ctrl_stop_id,
                 led_ctrl_step_id, reset_blinking, led_ctrl_uses_sysfs,
                 init_done, init_ack, led_control, sources, hw_log, ev, script,
                 hw>>

ScaleSpec == InitScale /\ [][ApplyScale]_vars

Scaled == unit.fn = "scale" /\ unit.done

(***************************************************************************)
(* C18: for every value in [0,255] and every max in [1,255],               *)
(* scale(value, max) is value*max/255 rounded to the nearest integer and   *)
(* then clamped to [0, max].  (255 is odd, so no quotient lies halfway.)   *)
(***************************************************************************)
C18_ScaleRoundsToNearest ==
  Scaled
    => /\ unit.res = Clamp(0, unit.arg[2], RoundDiv(unit.arg[1] * unit.arg[2], 255))
       /\ 2 * (255 * unit.res - unit.arg[1] * unit.arg[2]) <= 255
       /\ 2 * (unit.arg[1] * unit.arg[2] - 255 * unit.res) <= 255

RequestStep ==
  ev'.op \in {"init", "set_pattern", "enable_breathing", "set_brightness"}

(***************************************************************************)
(* C21: the Current Pattern State is assigned once per accepted request,   *)
(* inside the request call (to the sanitized request, which differs from   *)
(* the state before) and before any hardware write caused by the request:  *)
(* the call itself writes nothing.  No timer callback (settle, static,     *)
(* step), no rejected request and no quit modifies it.                     *)
(***************************************************************************)
C21_CurrAssignedOncePerAccept ==
  [][/\ ev'.accepted
          => /\ RequestStep
             /\ led_ctrl_curr' = WorkNext
             /\ led_ctrl_curr' # led_ctrl_curr
             /\ hw_log' = << >>
     /\ (RequestStep /\ ~ev'.accepted) => UNCHANGED led_ctrl_curr
     /\ (TimerStep \/ ev'.op = "quit") => UNCHANGED led_ctrl_curr]_vars

\* a settle fire wrote black for an accepted black request on top of a blink
\* pattern; the state is the one the request set
C21_Witness ==
  /\ ev.op = "led_ctrl_stop_cb"
  /\ ev.ret
  /\ led_ctrl_curr = Request(0, 0, 0, 0, 0, 100, FALSE)
  /\ DataWrites(hw_log) = << <<"blink", 0, 0, 0>>, <<"value", 0, 0, 0>> >>
  /\ sources = {}

\* the index a step fire reads the ramp table at
ReadIndex ==
  IF led_ctrl_breathe.step >= led_ctrl_breathe.steps THEN 0
  ELSE led_ctrl_breathe.step

(***************************************************************************)
(* C22 (as amended): the index at which a step-timer fire reads the ramp   *)
(* table is always below the step count, because an index that has reached *)
(* or passed the count is wrapped to 0 before the read; the stored index   *)
(* itself is only bounded by the table size: it is 0 with step count 0     *)
(* before any ramp exists, it is in 1..count after every step fire (equal  *)
(* to the count after the fire that read the last sample), and it can      *)
(* exceed the count after a shorter ramp was generated, since generating a *)
(* ramp does not reset it.                                                 *)
(***************************************************************************)
C22_ReadIndexBelowCount ==
  /\ [](/\ led_ctrl_breathe.step \in 0 .. LED_CTRL_MAX_STEPS
        /\ led_ctrl_breathe.steps \in 0 .. LED_CTRL_MAX_STEPS
        /\ led_ctrl_breathe.delay > 0 => led_ctrl_breathe.steps > 0)
  /\ [][StepFired
          => /\ ReadIndex < led_ctrl_breathe.steps
             /\ led_ctrl_breathe'.step = ReadIndex + 1
             /\ led_ctrl_breathe'.step \in 1 .. led_ctrl_breathe.steps]_vars
  /\ [][(~StepFired)
          => led_ctrl_breathe'.step = led_ctrl_breathe.step]_vars

\* a shorter ramp was generated while the index stood beyond its end
C22_Witness ==
  /\ ev.restart
  /\ led_ctrl_breathe.delay > 0
  /\ led_ctrl_breathe.steps = 14
  /\ led_ctrl_breathe.step > 14

(***************************************************************************)
(* C22 as stated: in every reachable state the ramp table's step index is  *)
(* strictly less than its step count.                                      *)
(***************************************************************************)
C22_StepBelowCount == led_ctrl_breathe.step < led_ctrl_breathe.steps

IsSettle(s) == s.cb = "led_ctrl_stop_cb"

IsStepOrStatic(s) == s.cb \in {"led_ctrl_step_cb", "led_ctrl_static_cb"}

SameTimer(s, t) == IsSettle(s) <=> IsSettle(t)

\* the sources armed by the step
Armed == sources' \ sources

(***************************************************************************)
(* C23: over any interleaving of requests, timer fires and quit there is   *)
(* at most one live settle timer and at most one live step/static timer,   *)
(* each the one its id variable names; a timer is armed only when every    *)
(* earlier instance of the same timer has fired or has been cancelled in   *)
(* the same step at the latest.                                            *)
(***************************************************************************)
C23_OneTimerOfEachKind ==
  /\ [](/\ Cardinality({s \in sources : IsSettle(s)}) <= 1
        /\ Cardinality({s \in sources : IsStepOrStatic(s)}) <= 1
        /\ {s.id : s \in {t \in sources : IsSettle(t)}} = {led_ctrl_stop_id} \ {0}
        /\ {s.id : s \in {t \in sources : IsStepOrStatic(t)}}
             = {led_ctrl_step_id} \ {0})
  /\ [][\A s \in Armed : \A t \in sources : SameTimer(s, t) => t \notin sources']_vars

\* a request cancelled the running step timer and armed the settle timer anew
C23_Witness ==
  /\ ev.restart
  /\ ev.op = "set_pattern"
  /\ sources = {[id |-> 1, cb |-> "led_ctrl_stop_cb"]}
  /\ led_ctrl_stop_id = 1
  /\ led_ctrl_step_id = 0
  /\ led_ctrl_breathe.step > 0
  /\ led_ctrl_breathe.delay > 0

(***************************************************************************)
(* C24: a settle timer and a step/static timer are never pending at the    *)
(* same time; the step timer and the static one-shot timer are armed only  *)
(* by a settle fire, which has cleared the settle timer by then, and one   *)
(* settle fire arms at most one of the two.                                *)
(***************************************************************************)
C24_SettleExcludesStep ==
  /\ [](~(SettlePending /\ StepOrStaticPending))
  /\ [][(\E s \in Armed : IsStepOrStatic(s))
          => /\ SettleFired
             /\ led_ctrl_stop_id' = 0
             /\ PendingNext("led_ctrl_stop_cb") = {}
             /\ Cardinality(Armed) = 1]_vars
  /\ [][(\E s \in Armed : IsSettle(s)) => (RequestStep /\ ev'.restart)]_vars

\* a settle fire armed the static timer and left no settle timer
C24_Witness ==
  /\ ev.op = "led_ctrl_stop_cb"
  /\ ev.ret
  /\ led_ctrl_stop_id = 0
  /\ Cardinality(sources) = 1
  /\ Pending("led_ctrl_static_cb") # {}
  /\ led_request_get_style(led_ctrl_curr) = "STYLE_BLINK"

(***************************************************************************)
(* C25: no request operation (init, set_pattern, enable_breathing,         *)
(* set_brightness) issues a hardware write inside the call; every write is *)
(* issued by a timer callback or by quit; after a restart request only the *)
(* settle timer is pending, so the first write the request causes comes    *)
(* with or after the expiry of a settle timer that follows the request.    *)
(***************************************************************************)
C25_RequestsDoNotWrite ==
  [][/\ RequestStep => hw_log' = << >>
     /\ hw_log' # << >> => (TimerStep /\ ev'.ret) \/ ev'.op = "quit"
     /\ ev'.restart
          => /\ Cardinality(PendingNext("led_ctrl_stop_cb")) = 1
             /\ sources' = PendingNext("led_ctrl_stop_cb")
             /\ led_ctrl_step_id' = 0
     /\ ((StaticFired \/ StepFired) /\ hw_log' # << >>)
          => ~SettlePending /\ ~ev.restart]_vars

\* the static fire wrote the colour of a request accepted two fires earlier
C25_Witness ==
  /\ ev.op = "led_ctrl_static_cb"
  /\ ev.ret
  /\ WritesOf(hw_log, "value") = << <<"value", 100, 0, 0>> >>
  /\ led_ctrl_curr.level = 100
  /\ sources = {}

\* STYLE_BLINK, spelled out from the fields of the request
IsBlink(c) == HasColour(c) /\ c.on > 0 /\ c.off > 0 /\ ~c.breathe

\* the request step arms the settle timer
ArmsSettle == RequestStep /\ ev'.restart /\ led_ctrl_stop_id = 0

(***************************************************************************)
(* C26: reset_blinking is decided when the settle timer is armed, as (the  *)
(* style before the request is BLINK or the style of the new request is    *)
(* BLINK); no other request changes it, in particular none accepted while  *)
(* the settle timer is pending; the static and step fires and quit leave   *)
(* it alone and a settle fire leaves it false (before quit it is false     *)
(* whenever no settle timer is pending), so at a fire it has the value of  *)
(* the arming; the settle fire writes timing (0,0), ahead of every colour  *)
(* write, if and only if the flag is set.                                  *)
(***************************************************************************)
C26_ClearBlinkDecidedAtArming ==
  /\ [](BackendActive /\ led_ctrl_curr.r >= 0 /\ ~SettlePending => ~reset_blinking)
  /\ [][/\ ArmsSettle
             => reset_blinking' = (IsBlink(led_ctrl_curr) \/ IsBlink(WorkNext))
        /\ (RequestStep /\ ~ArmsSettle) => UNCHANGED reset_blinking
        /\ (RequestStep /\ ev'.accepted /\ SettlePending)
             => UNCHANGED reset_blinking
        /\ (StaticFired \/ StepFired \/ ev'.op = "quit")
             => UNCHANGED reset_blinking
        /\ SettleFired => ~reset_blinking'
        /\ (SettleFired /\ BackendActive)
             => /\ reset_blinking
                  <=> /\ DataWrites(hw_log') # << >>
                      /\ Head(DataWrites(hw_log')) = <<"blink", 0, 0, 0>>
                /\ ~reset_blinking => WritesOf(hw_log', "blink") = << >>
                /\ Len(WritesOf(hw_log', "blink")) <= 1]_vars

\* blinking was cleared on the way from BLINK to STATIC
C26_Witness ==
  /\ ev.op = "led_ctrl_stop_cb"
  /\ ev.ret
  /\ DataWrites(hw_log) = << <<"blink", 0, 0, 0>>, <<"value", 0, 0, 0>> >>
  /\ led_request_get_style(led_ctrl_curr) = "STYLE_STATIC"
  /\ Pending("led_ctrl_static_cb") # {}

\* the value write a step fire issues for the sample at index i
StepWrite(i) ==
  LET v == RampValue(led_ctrl_breathe.value, i)
      c == ScaledColour(led_ctrl_curr)
  IN  <<"value", led_util_scale_value(c[1], v), led_util_scale_value(c[2], v),
        led_util_scale_value(c[3], v)>>

(***************************************************************************)
(* C28: a step fire leaves the step timer armed; the step timer goes away  *)
(* only in a restart request or in quit; each fire reads the sample at the *)
(* current index, taken as 0 when the index has reached the step count,    *)
(* stores that index plus one, and writes (while the backend is open)      *)
(* exactly one value, scale(scale(c, level), sample) per channel, and no   *)
(* timing.                                                                 *)
(***************************************************************************)
C28_StepTimerRecurs ==
  [][/\ StepFired
          => /\ UNCHANGED <<sources, led_ctrl_step_id>>
             /\ Pending("led_ctrl_step_cb") # {}
             /\ led_ctrl_breathe'.step = ReadIndex + 1
             /\ led_ctrl_breathe'.value = led_ctrl_breathe.value
             /\ WritesOf(hw_log', "blink") = << >>
             /\ BackendActive
                  => DataWrites(hw_log') = << StepWrite(ReadIndex) >>
     /\ (Pending("led_ctrl_step_cb") # {} /\ PendingNext("led_ctrl_step_cb") = {})
          => (RequestStep /\ ev'.restart) \/ ev'.op = "quit"]_vars

\* the fire that read the last sample of the ramp at half brightness
C28_Witness ==
  /\ ev.op = "led_ctrl_step_cb"
  /\ ev.ret
  /\ led_ctrl_breathe.step = led_ctrl_breathe.steps
  /\ led_ctrl_curr.level = 100
  /\ Pending("led_ctrl_step_cb") # {}
  /\ BackendActive
  /\ Len(WritesOf(hw_log, "value")) = 1

(***************************************************************************)
(* C30: in every reachable state the step delay of the ramp is greater     *)
(* than 0 exactly when the Current Pattern State has style BREATH; a       *)
(* settle fire arms the step timer exactly when the style is BREATH, the   *)
(* static timer exactly when it is STATIC or BLINK, and no timer when it   *)
(* is OFF.                                                                 *)
(***************************************************************************)
C30_DelayIffBreathe ==
  /\ [](led_ctrl_breathe.delay > 0
          <=> led_request_get_style(led_ctrl_curr) = "STYLE_BREATH")
  /\ [][SettleFired
          => /\ (\E s \in Armed : s.cb = "led_ctrl_step_cb")
                  <=> led_request_get_style(led_ctrl_curr) = "STYLE_BREATH"
             /\ (\E s \in Armed : s.cb = "led_ctrl_static_cb")
                  <=> led_request_get_style(led_ctrl_curr)
                        \in {"STYLE_STATIC", "STYLE_BLINK"}
             /\ Armed = {} <=> led_request_get_style(led_ctrl_curr) = "STYLE_OFF"
             /\ Cardinality(Armed) <= 1]_vars

\* a settle fire armed the step timer for a breathing pattern
C30_Witness ==
  /\ ev.op = "led_ctrl_stop_cb"
  /\ ev.ret
  /\ led_request_get_style(led_ctrl_curr) = "STYLE_BREATH"
  /\ led_ctrl_breathe.delay > 0
  /\ Pending("led_ctrl_step_cb") # {}
  /\ led_ctrl_step_id # 0

(***************************************************************************)
(* The controller together with the led as the writes leave it: hw.colour  *)
(* is the colour written last, hw.timing the timing written last (<< >>:   *)
(* none so far).  The glib main loop dispatches a timer that is due, hence *)
(* the fairness on timer fires.                                            *)
(***************************************************************************)
PatternsLast ==
  {<<0, 0, 0, 0, 0>>, <<255, 0, 0, 0, 0>>, <<255, 0, 0, 100, 500>>,
   <<255, 0, 0, 140, 140>>}

HwLast(h, log) ==
  LET vals   == WritesOf(log, "value")
      blinks == WritesOf(log, "blink")
  IN  [h EXCEPT !.colour = IF vals # << >> THEN WriteColour(vals[Len(vals)])
                           ELSE h.colour,
                !.timing = IF blinks # << >>
                             THEN <<blinks[Len(blinks)][2], blinks[Len(blinks)][3]>>
                           ELSE h.timing]

LastWritten ==
  /\ hw' = HwLast(hw, hw_log')
  /\ UNCHANGED <<unit, script>>

LastSetPattern ==
  \E p \in PatternsLast,
     fallback_ok \in IF led_ctrl_uses_sysfs \/ ~init_ack THEN {TRUE} ELSE BOOLEAN :
    mce_hybris_indicator_set_pattern(p[1], p[2], p[3], p[4], p[5], fallback_ok)

LastTimer == TimerFire /\ LastWritten

NextLast ==
  \/ DoInit /\ LastWritten
  \/ LastSetPattern /\ LastWritten
  \/ DoEnableBreathing /\ LastWritten
  \/ DoSetBrightness /\ LastWritten
  \/ DoQuit /\ LastWritten
  \/ LastTimer

SpecLast == Init /\ [][NextLast]_vars /\ WF_vars(LastTimer)

\* neither timer is pending
Idle == led_ctrl_stop_id = 0 /\ led_ctrl_step_id = 0 /\ sources = {}

\* timing the led is left with
LastTiming == IF hw.timing = << >> THEN <<0, 0>> ELSE hw.timing

(***************************************************************************)
(* C29: once a request has been accepted and while the backend is open     *)
(* (before quit), whenever neither timer is pending the colour written     *)
(* last is the colour of the Current Pattern State scaled by its level and *)
(* the timing written last, (0,0) if none was written, is its (on, off);   *)
(* whenever the Current Pattern State has style BREATH, the settle timer   *)
(* or the step timer is pending.                                           *)
(***************************************************************************)
C29_IdleHardwareAtCurrent ==
  /\ (BackendActive /\ led_ctrl_curr.r >= 0 /\ Idle)
       => /\ hw.colour = ScaledColour(led_ctrl_curr)
          /\ LastTiming = <<led_ctrl_curr.on, led_ctrl_curr.off>>
  /\ (BackendActive /\ led_request_get_style(led_ctrl_curr) = "STYLE_BREATH")
       => \/ Pending("led_ctrl_stop_cb") # {}
          \/ Pending("led_ctrl_step_cb") # {}

\* idle and dark again after the led had been blinking
C29_Witness ==
  /\ BackendActive
  /\ Idle
  /\ ev.op = "led_ctrl_stop_cb"
  /\ led_request_get_style(led_ctrl_curr) = "STYLE_OFF"
  /\ hw.colour = <<0, 0, 0>>
  /\ hw.timing = <<0, 0>>
  /\ DataWrites(hw_log) = << <<"blink", 0, 0, 0>>, <<"value", 0, 0, 0>> >>

\* the Current Pattern State is lit without breathing
StaticOrBlink(c) ==
  led_request_get_style(c) \in {"STYLE_STATIC", "STYLE_BLINK"}

(***************************************************************************)
(* C27: an accepted request that leaves the Current Pattern State STATIC   *)
(* or BLINK leaves the settle timer as the only timer; a pending settle    *)
(* timer eventually goes away; its fire with a STATIC or BLINK state arms  *)
(* the static timer and nothing else; a pending static timer eventually    *)
(* goes away; its fire writes, while the backend is open, timing (on, off) *)
(* and then value (scale(r,level), scale(g,level), scale(b,level)) of the  *)
(* Current Pattern State, once each, and leaves no timer; with no timer    *)
(* pending nothing is written and no timer is armed except by quit or by a *)
(* further request.                                                        *)
(***************************************************************************)
C27_StaticTimerWritesTarget ==
  /\ [][(RequestStep /\ ev'.accepted /\ StaticOrBlink(led_ctrl_curr'))
          => /\ ev'.restart
             /\ sources' = PendingNext("led_ctrl_stop_cb")
             /\ Cardinality(sources') = 1]_vars
  /\ (SettlePending ~> ~SettlePending)
  /\ [][(SettleFired /\ StaticOrBlink(led_ctrl_curr))
          => /\ sources' = PendingNext("led_ctrl_static_cb")
             /\ Cardinality(sources') = 1
             /\ WritesOf(hw_log', "value") \in {<< >>, << <<"value", 0, 0, 0>> >>}]_vars
  /\ (Pending("led_ctrl_static_cb") # {} ~> Pending("led_ctrl_static_cb") = {})
  /\ [][StaticFired
          => /\ StaticOrBlink(led_ctrl_curr)
             /\ Idle'
             /\ BackendActive
                  => DataWrites(hw_log') =
                       << <<"blink", led_ctrl_curr.on, led_ctrl_curr.off, 0>>,
                          <<"value">> \o ScaledColour(led_ctrl_curr) >>]_vars
  /\ [][Idle => /\ hw_log' # << >> => ev'.op = "quit"
                /\ ~Idle' => (RequestStep /\ ev'.restart)]_vars

\* the static fire left the led blinking at reduced brightness, no timer left
C27_Witness ==
  /\ ev.op = "led_ctrl_static_cb"
  /\ ev.ret
  /\ Idle
  /\ BackendActive
  /\ led_request_get_style(led_ctrl_curr) = "STYLE_BLINK"
  /\ led_ctrl_curr.level = 100
  /\ hw.timing = <<100, 500>>
  /\ hw.colour = <<100, 0, 0>>

\* positions of the writes of a kind in a write log
At(log, kind) == {i \in 1 .. Len(log) : log[i][1] = kind}

Disable == <<"enable", 0, 0, 0>>

Enable == <<"enable", 1, 0, 0>>

(***************************************************************************)
(* C31: on the hammerhead backend, in the writes of every operation and    *)
(* timer callback, each timing write and each value write comes right      *)
(* after an enable(false) write, each value write is followed at once by   *)
(* an enable(true) write, each timing write is followed by a value write   *)
(* of the same callback, and the enable write issued last is enable(true); *)
(* on the vanilla backend no enable write is issued.                       *)
(***************************************************************************)
C31_HammerheadEnableBrackets ==
  [][/\ led_control.name = "hammerhead"
          => /\ \A i \in At(hw_log', "blink") \cup At(hw_log', "value") :
                  i > 1 /\ hw_log'[i - 1] = Disable
             /\ \A i \in At(hw_log', "value") :
                  i < Len(hw_log') /\ hw_log'[i + 1] = Enable
             /\ \A i \in At(hw_log', "blink") :
                  \E j \in At(hw_log', "value") : j > i
             /\ WritesOf(hw_log', "enable") # << >>
                  => WritesOf(hw_log', "enable")[Len(WritesOf(hw_log', "enable"))]
                       = Enable
             /\ (TimerStep /\ ev'.ret /\ At(hw_log', "enable") = {})
                  => DataWrites(hw_log') = << >>
     /\ led_control.name # "hammerhead" => At(hw_log', "enable") = {}]_vars

\* a static fire on hammerhead: disable, timing, disable, value, enable
C31_Witness ==
  /\ led_control.name = "hammerhead"
  /\ ev.op = "led_ctrl_static_cb"
  /\ ev.ret
  /\ hw_log = <<Disable, <<"blink", 100, 500, 0>>, Disable,
                <<"value", 255, 0, 0>>, Enable>>

\* a request has been accepted: the colour is no longer the invalid one
AcceptedOnce == led_ctrl_curr.r >= 0

(***************************************************************************)
(* C32: over any sequence of public calls with arguments in and out of     *)
(* range, the Current Pattern State is the initial sentinel until the      *)
(* first request is accepted, and from then on r, g, b are in [0,255],     *)
(* level is in [1,255], on and off are both 0 or both in [50,60000], and   *)
(* breathe is set only with a colour and on >= 140 and off >= 140, which   *)
(* is exactly when the style is BREATH.                                    *)
(***************************************************************************)
C32_CurrentStateInRange ==
  /\ ~AcceptedOnce => led_ctrl_curr = Request(-1, -1, -1, 0, 0, 255, FALSE)
  /\ AcceptedOnce
       => /\ led_ctrl_curr.r \in 0 .. 255
          /\ led_ctrl_curr.g \in 0 .. 255
          /\ led_ctrl_curr.b \in 0 .. 255
          /\ led_ctrl_curr.level \in 1 .. 255
          /\ \/ led_ctrl_curr.on = 0 /\ led_ctrl_curr.off = 0
             \/ led_ctrl_curr.on \in 50 .. 60000 /\ led_ctrl_curr.off \in 50 .. 60000
          /\ led_ctrl_curr.breathe
               => /\ HasColour(led_ctrl_curr)
                  /\ led_ctrl_curr.on >= 140
                  /\ led_ctrl_curr.off >= 140
          /\ led_ctrl_curr.breathe
               <=> led_request_get_style(led_ctrl_curr) = "STYLE_BREATH"

\* a breathing state was given a short on period: breathing was dropped
C32_Witness ==
  /\ ev.op = "set_pattern"
  /\ ev.accepted
  /\ ev.req.breathe
  /\ led_ctrl_curr = Request(255, 0, 0, 50, 60000, 255, FALSE)

(***************************************************************************)
(* The controller together with a record of the reads of the ramp table:   *)
(* hw.left is the step index found when the step timer was armed, hw.fires *)
(* the number of fires of that timer so far (2: two or more), hw.read the  *)
(* index its last fire read (-1: none); the record is cleared when the     *)
(* step timer is removed.                                                  *)
(***************************************************************************)
PatternsStep ==
  {<<0, 0, 0, 0, 0>>, <<255, 0, 0, 140, 140>>, <<255, 0, 0, 140, 200>>}

\* index read by a step fire: the stored index is the one read, plus one
IndexRead == led_ctrl_breathe'.step - 1

HwRead(h) ==
  IF StepFired
    THEN [h EXCEPT !.read = IndexRead, !.fires = Min(h.fires + 1, 2)]
  ELSE IF SettleFired /\ PendingNext("led_ctrl_step_cb") # {}
    THEN [h EXCEPT !.left = led_ctrl_breathe.step, !.fires = 0, !.read = -1]
  ELSE IF PendingNext("led_ctrl_step_cb") = {}
    THEN [h EXCEPT !.left = 0, !.fires = 0, !.read = -1]
  ELSE h

Reading ==
  /\ hw' = HwRead(hw)
  /\ UNCHANGED <<unit, script>>

StepSetPattern ==
  \E p \in PatternsStep,
     fallback_ok \in IF led_ctrl_uses_sysfs \/ ~init_ack THEN {TRUE} ELSE BOOLEAN :
    mce_hybris_indicator_set_pattern(p[1], p[2], p[3], p[4], p[5], fallback_ok)

\* init finds the vanilla files
StepInit ==
  mce_hybris_indicator_init(
    [vanilla |-> <<TRUE, TRUE, TRUE>>, hammerhead |-> <<FALSE, FALSE, FALSE>>],
    TRUE)

StepSetBrightness == mce_hybris_indicator_set_brightness(100)

NextStep ==
  \/ StepInit /\ Reading
  \/ StepSetPattern /\ Reading
  \/ DoEnableBreathing /\ Reading
  \/ StepSetBrightness /\ Reading
  \/ DoQuit /\ Reading
  \/ TimerFire /\ Reading

SpecStep == Init /\ [][NextStep]_vars

(***************************************************************************)
(* C33: whenever the step callback reads a ramp sample, the index read is  *)
(* below the step count, below 256 and inside the filled part of the       *)
(* table, and the step count is at least 1; so it is for the first fire    *)
(* after the ramp was regenerated with fewer steps than the index left     *)
(* over.                                                                   *)
(***************************************************************************)
C33_ReadInsideRamp ==
  /\ [][StepFired
          => /\ IndexRead >= 0
             /\ IndexRead < led_ctrl_breathe.steps
             /\ IndexRead < LED_CTRL_MAX_STEPS
             /\ IndexRead < Len(led_ctrl_breathe.value)
             /\ led_ctrl_breathe.steps >= 1
             /\ led_ctrl_breathe.steps <= LED_CTRL_MAX_STEPS
             /\ UNCHANGED <<led_ctrl_breathe.steps, led_ctrl_breathe.value>>]_vars
  /\ []((Pending("led_ctrl_step_cb") # {} /\ hw.fires >= 1)
          => hw.read \in 0 .. led_ctrl_breathe.steps - 1)

\* first fire on a 14 step ramp with the index left beyond it by a longer ramp
C33_Witness ==
  /\ ev.op = "led_ctrl_step_cb"
  /\ ev.ret
  /\ hw.fires = 1
  /\ led_ctrl_breathe.steps = 14
  /\ hw.left > 14
  /\ hw.read = 0
  /\ led_ctrl_breathe.step = 1

(***************************************************************************)
(* C38: the step index is changed by step fires only, never by a restart   *)
(* or by generating a ramp; the first fire after the step timer is armed   *)
(* reads the sample at the index left over if that index is below the step *)
(* count and the sample at index 0 otherwise; the index is 0 before the    *)
(* first breathing run.                                                    *)
(***************************************************************************)
C38_IndexCarriedOver ==
  /\ [][(~StepFired) => led_ctrl_breathe'.step = led_ctrl_breathe.step]_vars
  /\ [][StepFired
          => IndexRead = IF led_ctrl_breathe.step < led_ctrl_breathe.steps
                           THEN led_ctrl_breathe.step ELSE 0]_vars
  /\ []((Pending("led_ctrl_step_cb") # {} /\ hw.fires = 0)
          => hw.left = led_ctrl_breathe.step)
  /\ []((Pending("led_ctrl_step_cb") # {} /\ hw.fires = 1)
          => hw.read = IF hw.left < led_ctrl_breathe.steps THEN hw.left ELSE 0)
  /\ [](led_ctrl_breathe.steps = 0 => led_ctrl_breathe.step = 0)

\* breathing resumed in the middle of the ramp, where the last run had stopped
C38_Witness ==
  /\ ev.op = "led_ctrl_step_cb"
  /\ ev.ret
  /\ Pending("led_ctrl_step_cb") # {}
  /\ hw.fires = 1
  /\ hw.left \in 1 .. led_ctrl_breathe.steps - 1
  /\ hw.read = hw.left
  /\ led_ctrl_breathe.step = hw.left + 1

\* the led is not left blinking by the pwm generator
TimingCleared(h) == h.timing \in {<< >>, <<0, 0>>}

(***************************************************************************)
(* C34: whenever a step fire writes a colour, and whenever a settle fire   *)
(* arms a timer (the Current Pattern State has a colour), the timing       *)
(* written last is (0,0) or none was written; in every interleaving a      *)
(* non-zero timing is on the led only while the controller is idle in      *)
(* style BLINK with that timing, or while a settle timer armed since then  *)
(* is pending, and that settle timer carries the clear-blink flag.         *)
(***************************************************************************)
C34_BlinkClearedBeforeColour ==
  /\ [][(StepFired /\ WritesOf(hw_log', "value") # << >>)
          => TimingCleared(hw) /\ TimingCleared(hw')]_vars
  /\ [][(SettleFired /\ Armed # {})
          => HasColour(led_ctrl_curr) /\ TimingCleared(hw')]_vars
  /\ [](~TimingCleared(hw)
          => /\ BackendActive
             /\ \/ /\ Idle
                   /\ led_request_get_style(led_ctrl_curr) = "STYLE_BLINK"
                   /\ hw.timing = <<led_ctrl_curr.on, led_ctrl_curr.off>>
                \/ /\ SettlePending
                   /\ ~StepOrStaticPending
                   /\ reset_blinking)
  /\ [][(~TimingCleared(hw) /\ Idle /\ ~Idle') => reset_blinking']_vars

\* the settle fire cleared the blinking and armed the step timer
C34_Witness ==
  /\ ev.op = "led_ctrl_stop_cb"
  /\ ev.ret
  /\ BackendActive
  /\ DataWrites(hw_log) = << <<"blink", 0, 0, 0>>, <<"value", 0, 0, 0>> >>
  /\ hw.timing = <<0, 0>>
  /\ led_request_get_style(led_ctrl_curr) = "STYLE_BREATH"
  /\ Pending("led_ctrl_step_cb") # {}

\* the Current Pattern State cannot breathe: off, static, or a short period
CannotBreathe(c) ==
  \/ led_request_get_style(c) \in {"STYLE_OFF", "STYLE_STATIC"}
  \/ c.on < 140
  \/ c.off < 140

(***************************************************************************)
(* C35: enable_breathing(true), called while the Current Pattern State is  *)
(* OFF or STATIC or has a period below 140 ms, changes nothing: not the    *)
(* Current Pattern State, the ramp, the timers or the clear-blink flag,    *)
(* and it writes nothing.  It is not remembered either: breathe becomes    *)
(* set only inside an enable_breathing(true) call, so a set_pattern on a   *)
(* state without breathe yields a state without breathe, style BLINK for a *)
(* colour with both periods of at least 140 ms.                            *)
(***************************************************************************)
C35_EnableBreathingNotRemembered ==
  /\ [][(Called("enable_breathing") /\ unit'.arg = <<TRUE>>
           /\ CannotBreathe(led_ctrl_curr))
          => /\ CtrlUnchanged
             /\ UNCHANGED <<led_control, led_ctrl_uses_sysfs, hw>>
             /\ hw_log' = << >>
             /\ ~ev'.accepted]_vars
  /\ [][(~led_ctrl_curr.breathe /\ led_ctrl_curr'.breathe)
          => Called("enable_breathing") /\ unit'.arg = <<TRUE>>]_vars
  /\ [][(Called("set_pattern") /\ ev'.accepted /\ ~led_ctrl_curr.breathe
           /\ HasColour(led_ctrl_curr') /\ led_ctrl_curr'.on >= 140
           /\ led_ctrl_curr'.off >= 140)
          => /\ ~led_ctrl_curr'.breathe
             /\ led_request_get_style(led_ctrl_curr') = "STYLE_BLINK"
             /\ led_ctrl_breathe'.delay = 0]_vars

\* enable_breathing(true) on a blinking state with a 50 ms on period: no-op
C35_Witness ==
  /\ unit = Call("enable_breathing", <<TRUE>>)
  /\ ev.started
  /\ ~ev.accepted
  /\ led_ctrl_curr = Request(255, 0, 0, 50, 60000, 255, FALSE)
  /\ hw_log = << >>

\* the periods a breathing request can carry
BreathePeriods == 140 .. 60000

\* the value fits the int of the code
Int32(x) == x >= -2147483647 - 1 /\ x <= 2147483647

\* what led_ctrl_generate_ramp computes for the periods, in its int arithmetic
RampInRange(on, off) ==
  LET t    == on + off
      s    == RampDelay(on, off)
      n    == RampStepsTotal(on, off)
      son  == RampStepsOn(on, off)
      soff == RampStepsOff(on, off)
  IN  /\ s >= 20
      /\ son >= 1
      /\ soff >= 1
      /\ n = son + soff
      /\ t <= n * s
      /\ n * s < t + s
      /\ Int32(t)
      /\ Int32(t + LED_CTRL_MAX_STEPS - 1)
      /\ Int32(t + s - 1)
      /\ Int32(n * on)
      /\ Int32(n * on + CDiv(t, 2))
      /\ n * on + CDiv(t, 2) <= LED_CTRL_MAX_STEPS * 60000 + 60000

(***************************************************************************)
(* C36: for on_ms, off_ms in [140, 60000] the generated ramp has a step    *)
(* delay s >= 20, at least one rising and one falling sample, and n = its  *)
(* sample count satisfies on_ms + off_ms <= n*s < on_ms + off_ms + s; no   *)
(* intermediate integer leaves the 32 bit signed range.  Checked for the   *)
(* ramp generated from every pair of RampPeriods, and for the arithmetic   *)
(* of the function over every period in [140, 60000] paired with each of   *)
(* RampPeriods on either side.                                             *)
(***************************************************************************)
C36_RampCoversPeriod ==
  RampDone
    => /\ RampInRange(unit.arg.on, unit.arg.off)
       /\ led_ctrl_breathe.delay = RampDelay(unit.arg.on, unit.arg.off)
       /\ led_ctrl_breathe.steps =
            RampStepsOn(unit.arg.on, unit.arg.off)
              + RampStepsOff(unit.arg.on, unit.arg.off)
       /\ led_ctrl_breathe.delay >= 20
       /\ unit.arg.on + unit.arg.off
            <= led_ctrl_breathe.steps * led_ctrl_breathe.delay
       /\ led_ctrl_breathe.steps * led_ctrl_breathe.delay
            < unit.arg.on + unit.arg.off + led_ctrl_breathe.delay
       /\ unit.arg.off = 140
            => \A x \in BreathePeriods : RampInRange(unit.arg.on, x)
       /\ unit.arg.on = 140
            => \A x \in BreathePeriods : RampInRange(x, unit.arg.off)

\* the shortest rise against the longest fall: one rising sample of 256
C36_Witness ==
  /\ RampDone
  /\ unit.arg.on = 140
  /\ unit.arg.off = 60000
  /\ RampStepsOn(140, 60000) = 1
  /\ RampStepsOff(140, 60000) = 255
  /\ led_ctrl_breathe.steps = 256
  /\ led_ctrl_breathe.delay = 235

\* quit has closed the backend that init had found
BackendClosed == led_ctrl_uses_sysfs /\ ~BackendActive

(***************************************************************************)
(* C37: when quit returns no timer is pending, both timer ids are 0 and    *)
(* the backend is closed; once quit has closed the backend it stays closed *)
(* and no timing, value, enable or close write is issued by any later      *)
(* init, set_pattern, enable_breathing, set_brightness or quit, nor by the *)
(* timers these calls still arm.                                           *)
(***************************************************************************)
C37_NoWriteAfterQuit ==
  /\ [][ev'.op = "quit"
          => /\ sources' = {}
             /\ led_ctrl_stop_id' = 0
             /\ led_ctrl_step_id' = 0
             /\ ~BackendActive'
             /\ led_control' = led_control_init]_vars
  /\ [][BackendClosed
          => /\ BackendClosed'
             /\ UNCHANGED led_control
             /\ DataWrites(hw_log') = << >>
             /\ At(hw_log', "enable") = {}
             /\ At(hw_log', "close") = {}]_vars
  /\ [](led_ctrl_uses_sysfs
          => \/ BackendActive
             \/ led_control = led_control_init)

\* a static timer armed after quit fired and wrote nothing
C37_Witness ==
  /\ BackendClosed
  /\ ev.op = "led_ctrl_static_cb"
  /\ ev.ret
  /\ HasColour(led_ctrl_curr)
  /\ hw_log = << >>
  /\ sources = {}

=============================================================================
